---------------------------- MODULE Spec2Model ----------------------------
(***************************************************************************)
(* SchedLinSim: the discrete-event scheduling simulator (SchedLinSim.js)   *)
(* with the FCFS, Round-Robin and Fair scheduling classes.                 *)
(*                                                                         *)
(* One behaviour of the model is one Simulator.run() to completion of one  *)
(* simulation configuration.  Init is the engine state after               *)
(* Simulator.init(simConf); every action is one iteration of the main      *)
(* simulation loop of Simulator.run (getNextEvent plus the whole handler   *)
(* of the event, nested pickNext / handlePreempt / policy calls included). *)
(* A thrown Error is recorded in err and ends the run.                     *)
(***************************************************************************)
EXTENDS Integers, Sequences, FiniteSets, TLC

(***************************************************************************)
(* Bounds of the explored configurations.                                  *)
(***************************************************************************)
MaxSimLen == 12
MaxSpawn == 2
MaxThreshold == 4

(***************************************************************************)
(* JavaScript null / undefined stand-ins.                                  *)
(***************************************************************************)
IdlePid == 0
NullPid == 0 - 1

NoEvent == [id |-> 0, type |-> "None", time |-> 0 - 1, proc |-> NullPid,
            cond |-> "none", nice |-> FALSE]

IsEvent(e) == e.type # "None"

IdleClassName == "IdleClass"

Max(a, b) == IF a > b THEN a ELSE b

Throw(s, msg) == IF s.err # "" THEN s ELSE [s EXCEPT !.err = msg]

Failed(s) == s.err # ""

\* the statements K that follow a call, unless the call threw
Then(s, K(_)) == IF Failed(s) THEN s ELSE K(s)

(***************************************************************************)
(* Event queue: the red-black tree keyed by time whose values are a single *)
(* event or an array of events.  It is kept as the sequence of its events  *)
(* in tree order (by time, then by position in the array of that time).    *)
(***************************************************************************)
Bucket(q, t) == SelectSeq(q, LAMBDA e : e.time = t)

WithoutBucket(q, t) == SelectSeq(q, LAMBDA e : e.time # t)

PutBucket(q, t, b) ==
    SelectSeq(q, LAMBDA e : e.time < t) \o b \o SelectSeq(q, LAMBDA e : e.time > t)

NewEvent(s, type, time, proc, cond, nice) ==
    [id |-> s.nextEventId, type |-> type, time |-> time, proc |-> proc,
     cond |-> cond, nice |-> nice]

\* a variant of insertEvent that puts the event before the events of its time
insertEventFirst(s, evt) ==
    IF Failed(s) THEN s
    ELSE IF evt.time < s.simulationTime
    THEN Throw(s, "cannot insert event at a time that has already passed")
    ELSE [s EXCEPT !.simulationQueue =
                       PutBucket(s.simulationQueue, evt.time,
                                 <<evt>> \o Bucket(s.simulationQueue, evt.time)),
                   !.nextEventId = Max(s.nextEventId, evt.id + 1)]

\* insertEvent: the event is appended to the events of its time
insertEvent(s, evt) ==
    IF Failed(s) THEN s
    ELSE IF evt.time < s.simulationTime
    THEN Throw(s, "cannot insert event at a time that has already passed")
    ELSE [s EXCEPT !.simulationQueue =
                       PutBucket(s.simulationQueue, evt.time,
                                 Bucket(s.simulationQueue, evt.time) \o <<evt>>),
                   !.nextEventId = Max(s.nextEventId, evt.id + 1)]

RemoveAt(b, i) == SubSeq(b, 1, i - 1) \o SubSeq(b, i + 1, Len(b))

IndexOfEvent(b, evt) ==
    IF \E i \in 1..Len(b) : b[i].id = evt.id
    THEN CHOOSE i \in 1..Len(b) : b[i].id = evt.id /\ \A j \in 1..(i - 1) : b[j].id # evt.id
    ELSE 0

\* a variant of getEvent that takes out the first event of the time of evt
getEventFirstOfTime(s, evt) ==
    IF Failed(s) THEN s
    ELSE IF ~IsEvent(evt) THEN Throw(s, "pass a valid event as an argument")
    ELSE IF evt.time < s.simulationTime
    THEN Throw(s, "cannot get an event that has already passed")
    ELSE LET holder == Bucket(s.simulationQueue, evt.time)
             rest == WithoutBucket(s.simulationQueue, evt.time)
         IN  IF Len(holder) = 0
             THEN Throw(s, "the event was not found at the time it should be at")
             ELSE [s EXCEPT !.simulationQueue =
                                IF Len(holder) = 1 THEN rest
                                ELSE PutBucket(rest, evt.time, Tail(holder)),
                            !.wrongDelete = @ \/ holder[1].id # evt.id,
                            !.sharedDelete = @ \/ Len(holder) > 1]

\* getEvent / deleteEvent: the tree node of evt.time is taken out (getDelete);
\* what is put back depends on the length of what was stored there.
\* (history: wrongDelete tells that an event other than evt was taken out,
\* sharedDelete that evt was taken out from among other events of its time)
getEvent(s, evt) ==
    IF Failed(s) THEN s
    ELSE IF ~IsEvent(evt) THEN Throw(s, "pass a valid event as an argument")
    ELSE IF evt.time < s.simulationTime
    THEN Throw(s, "cannot get an event that has already passed")
    ELSE LET holder == Bucket(s.simulationQueue, evt.time)
             rest == WithoutBucket(s.simulationQueue, evt.time)
             i == IndexOfEvent(holder, evt)
         IN  IF Len(holder) = 0
             THEN Throw(s, "the event was not found at the time it should be at")
             ELSE IF Len(holder) = 1
             THEN [s EXCEPT !.simulationQueue = rest,
                            !.wrongDelete = @ \/ holder[1].id # evt.id]
             ELSE IF i = 0
             THEN Throw([s EXCEPT !.simulationQueue = rest],
                        "the event was not found at the time it should be at")
             ELSE [s EXCEPT !.simulationQueue =
                                PutBucket(rest, evt.time, RemoveAt(holder, i)),
                            !.sharedDelete = TRUE]

deleteEvent(s, evt) == getEvent(s, evt)


(***************************************************************************)
(* Processes and scheduling classes.  s.procList[p] is the Process with    *)
(* pid p (1..n here, 0..n-1 in the source); IdlePid stands for the idle    *)
(* process, whose class is the IdleClass.                                  *)
(***************************************************************************)
PolicyOf(s, p) == IF p = IdlePid THEN IdleClassName ELSE s.procList[p].policy

ProcRunnable(s, p) == IF p = IdlePid THEN s.idle.runnable ELSE s.procList[p].runnable

RemoveFirst(q, p) ==
    IF \E i \in 1..Len(q) : q[i] = p
    THEN LET i == CHOOSE k \in 1..Len(q) : q[k] = p /\ \A j \in 1..(k - 1) : q[j] # p
         IN  RemoveAt(q, i)
    ELSE q

\* SchedClass.enqueue
SchedClass_enqueue(s, p) ==
    IF Failed(s) THEN s
    ELSE IF ~s.procList[p].alive THEN Throw(s, "attempting to enqueue a dead process")
    ELSE IF s.procList[p].onRq
    THEN Throw(s, "attempting to enqueue a process that's already on the runqueue")
    ELSE [s EXCEPT !.procList[p].onRq = TRUE]

\* SchedClass.dequeue
SchedClass_dequeue(s, p) ==
    IF Failed(s) THEN s
    ELSE IF ~s.procList[p].onRq
    THEN Throw(s, "attempting to dequeue a process that's not on the runqueue")
    ELSE [s EXCEPT !.procList[p].onRq = FALSE]

\* a latency update that moves latencyUpdate but adds nothing to the sum
FlushLatencyNoSum(s, c) ==
    [s EXCEPT !.schedClassActive[c].latencyUpdate = s.simulationTime]

\* The latency update shared by SchedClass.pickNext, SchedClass.updateLatency,
\* handlePreempt, handleExit, Simulator.run and Simulator.pickNext.
FlushLatency(s, c) ==
    [s EXCEPT !.schedClassActive[c].latencySum =
                  @ + (s.simulationTime - s.schedClassActive[c].latencyUpdate)
                      * s.schedClassActive[c].nrWaiting,
              !.schedClassActive[c].latencyUpdate = s.simulationTime]

\* SchedClass.pickNext
SchedClass_pickNext(s, c) ==
    IF Failed(s) THEN s
    ELSE IF s.calledPutPrev
    THEN Throw(s, "simulatorPutPrev true at the start of pickNext")
    ELSE [FlushLatency(s, c) EXCEPT !.schedClassActive[c].latencyLogLen = @ + 1]

\* a variant of updateLatency that logs nothing
SchedClass_updateLatencyNoLog(s, c) ==
    IF Failed(s) THEN s
    ELSE FlushLatency(s, c)

\* SchedClass.updateLatency
SchedClass_updateLatency(s, c) ==
    IF Failed(s) THEN s
    ELSE [FlushLatency(s, c) EXCEPT !.schedClassActive[c].latencyLogLen = @ + 1]

\* SchedClass.putPrev (and IdleClass.putPrev): raise the calledPutPrev flag
SchedClass_putPrev(s) ==
    IF Failed(s) THEN s
    ELSE [s EXCEPT !.calledPutPrev = TRUE, !.nrPutPrev = @ + 1]

(***************************************************************************)
(* FCFSClass                                                               *)
(***************************************************************************)
\* FCFSClass.enqueue that puts the process at the head of the runqueue
FCFS_enqueueFirst(s, c, p) ==
    Then(SchedClass_enqueue(s, p),
         LAMBDA s1 : [s1 EXCEPT !.schedClassActive[c].runqueue = <<p>> \o @])

FCFS_enqueue(s, c, p) ==
    Then(SchedClass_enqueue(s, p),
         LAMBDA s1 : [s1 EXCEPT !.schedClassActive[c].runqueue = Append(@, p)])

FCFS_dequeue(s, c, p) ==
    Then(SchedClass_dequeue(s, p),
         LAMBDA s1 : [s1 EXCEPT !.schedClassActive[c].runqueue = RemoveFirst(@, p)])

FCFS_putPrev(s, c, prev) == SchedClass_putPrev(s)

(***************************************************************************)
(* RoundClass                                                              *)
(***************************************************************************)
Round_enqueue(s, c, p) ==
    Then(SchedClass_enqueue(s, p),
         LAMBDA s1 : [s1 EXCEPT !.procList[p].timeSlice = s1.schedClassActive[c].timeSlice,
                                !.schedClassActive[c].runqueue = Append(@, p)])

Round_dequeue(s, c, p) ==
    Then(SchedClass_dequeue(s, p),
         LAMBDA s1 : [s1 EXCEPT !.schedClassActive[c].runqueue = RemoveFirst(@, p)])

\* RoundClass.putPrev that leaves the process where it is in the runqueue
Round_putPrevInPlace(s, c, prev) == SchedClass_putPrev(s)

Round_putPrev(s, c, prev) ==
    Then(SchedClass_putPrev(s),
         LAMBDA s1 : IF s1.procList[prev].runnable /\ s1.procList[prev].onRq
                     THEN Round_enqueue(Round_dequeue(s1, c, prev), c, prev)
                     ELSE s1)

(***************************************************************************)
(* SchedClassTemplate, the example of a user-written class.  Its enqueue,  *)
(* dequeue and taskTick are those of RoundClass, word for word.  The       *)
(* class parameter fault is the way in which a class written from the      *)
(* template departs from the putPrev rule its comments lay down: "none",   *)
(* "noPutPrev" (a process is returned, putPrev is not called) or           *)
(* "nullPutPrev" (putPrev is called, null is returned).                    *)
(***************************************************************************)
TemplateName == "SchedClassTemplate"

Faults == {"none", "noPutPrev", "nullPutPrev"}

Template_putPrev(s, c, prev) ==
    Then(SchedClass_putPrev(s),
         LAMBDA s1 : IF s1.procList[prev].runnable
                     THEN Round_enqueue(Round_dequeue(s1, c, prev), c, prev)
                     ELSE s1)

(***************************************************************************)
(* LinuxFairClass.  The runqueue is a red-black tree keyed by vruntime,    *)
(* kept here as the sequence of its <<key, pid>> entries in tree order.    *)
(* calcDelta divides exactly for the priority 0 (weight 1024) processes of *)
(* the explored configurations; schedSlice is kept as a fraction.          *)
(***************************************************************************)
schedPrioToWeight ==
    << 88761, 71755, 56483, 46273, 36291,
       29154, 23254, 18705, 14949, 11916,
        9548,  7620,  6100,  4904,  3906,
        3121,  2501,  1991,  1586,  1277,
        1024,   820,   655,   526,   423,
         335,   272,   215,   172,   137,
         110,    87,    70,    56,    45,
          36,    29,    23,    18,    15 >>

getLoad(prio) == schedPrioToWeight[prio + 21]

calcDeltaFair(s, delta, p) ==
    IF s.procList[p].currBehavior.priority = 0
    THEN delta
    ELSE (delta * getLoad(0)) \div getLoad(s.procList[p].currBehavior.priority)

TreeBucket(t, k) == SelectSeq(t, LAMBDA e : e.key = k)

TreePut(t, k, pids) ==
    SelectSeq(t, LAMBDA e : e.key < k)
        \o [i \in 1..Len(pids) |-> [key |-> k, pid |-> pids[i]]]
        \o SelectSeq(t, LAMBDA e : e.key > k)

TreeWithout(t, k) == SelectSeq(t, LAMBDA e : e.key # k)

BucketPids(b) == [i \in 1..Len(b) |-> b[i].pid]

\* LinuxFairClass.schedPeriod
schedPeriod(s, c, processCount) ==
    IF processCount > s.schedClassActive[c].schedNrLatency
    THEN processCount * s.schedClassActive[c].minGranularity
    ELSE s.schedClassActive[c].schedLatency

\* LinuxFairClass.schedSlice: the slice is num / den; proc.load is never
\* defined in the source, so adding it to the load makes the slice NaN.
schedSlice(s, c, p) ==
    LET processCount == IF s.procList[p].onRq THEN s.schedClassActive[c].enqueued
                        ELSE s.schedClassActive[c].enqueued + 1
        isNaN == ~s.procList[p].onRq /\ p # s.schedClassActive[c].curr
    IN  [nan |-> isNaN,
         num |-> schedPeriod(s, c, processCount) * getLoad(s.procList[p].currBehavior.priority),
         den |-> s.schedClassActive[c].load]

\* a variant of updateMinVruntime that stores the computed value without
\* comparing it with the old one
Fair_updateMinVruntimeNoMax(s, c, p) ==
    IF Failed(s) THEN s
    ELSE LET cl == s.schedClassActive[c]
             pr == s.procList[p]
             v0 == IF pr.runnable THEN pr.vruntime ELSE cl.minVruntime
         IN  IF cl.enqueued > 0 /\ Len(cl.tree) = 0
             THEN Throw(s, "the runqueue is empty or has an invalid value stored in it")
             ELSE LET left == s.procList[cl.tree[1].pid].vruntime
                      v1 == IF cl.enqueued > 0
                            THEN (IF pr.runnable
                                  THEN (IF left < v0 THEN left ELSE v0)
                                  ELSE left)
                            ELSE v0
                  IN  [s EXCEPT !.schedClassActive[c].minVruntime = v1]

\* LinuxFairClass.updateMinVruntime
Fair_updateMinVruntime(s, c, p) ==
    IF Failed(s) THEN s
    ELSE LET cl == s.schedClassActive[c]
             pr == s.procList[p]
             v0 == IF pr.runnable THEN pr.vruntime ELSE cl.minVruntime
         IN  IF cl.enqueued > 0 /\ Len(cl.tree) = 0
             THEN Throw(s, "the runqueue is empty or has an invalid value stored in it")
             ELSE LET left == s.procList[cl.tree[1].pid].vruntime
                      v1 == IF cl.enqueued > 0
                            THEN (IF pr.runnable
                                  THEN (IF left < v0 THEN left ELSE v0)
                                  ELSE left)
                            ELSE v0
                  IN  [s EXCEPT !.schedClassActive[c].minVruntime = Max(@, v1)]

\* LinuxFairClass.updateCurr
Fair_updateCurr(s, c, p) ==
    IF Failed(s) THEN s
    ELSE IF PolicyOf(s, p) # c THEN s
    ELSE LET deltaExec == s.simulationTime - s.procList[p].updated
         IN  IF deltaExec <= 0 THEN s
             ELSE Fair_updateMinVruntime(
                      [s EXCEPT !.procList[p].updated = s.simulationTime,
                                !.procList[p].vruntime = @ + calcDeltaFair(s, deltaExec, p)],
                      c, p)

\* LinuxFairClass.placeEntity (startDebit is false in the explored configurations)
Fair_placeEntity(s, c, p, initial) ==
    LET cl == s.schedClassActive[c]
        vruntime == IF initial THEN cl.minVruntime
                    ELSE cl.minVruntime - (cl.schedLatency \div 2)
    IN  [s EXCEPT !.procList[p].vruntime = IF @ < vruntime THEN vruntime ELSE @]

\* LinuxFairClass.enqueueEntity
\* (history: inserted records the process, its vruntime and the minVruntime of
\* the class at every insertion into the tree during the step)
Fair_enqueueEntity(s, c, p) ==
    LET k == s.procList[p].vruntime
        t == s.schedClassActive[c].tree
    IN  [s EXCEPT !.schedClassActive[c].tree =
                      TreePut(t, k, Append(BucketPids(TreeBucket(t, k)), p)),
                  !.inserted = @ \cup {[pid |-> p, vruntime |-> k,
                                        minVruntime |-> s.schedClassActive[c].minVruntime]}]

\* LinuxFairClass.dequeueEntity: the node of proc.vruntime is taken out of the
\* tree; what is put back is keyed by the vruntime of its first process.
Fair_dequeueEntity(s, c, p) ==
    IF Failed(s) THEN s
    ELSE LET k == s.procList[p].vruntime
             t == s.schedClassActive[c].tree
             holder == BucketPids(TreeBucket(t, k))
             rest == TreeWithout(t, k)
             left == RemoveFirst(holder, p)
         IN  IF Len(holder) = 0
             THEN Throw(s, "the process was not found at the time it should be at")
             ELSE IF Len(holder) = 1
             THEN [s EXCEPT !.schedClassActive[c].tree = rest]
             ELSE IF left = holder
             THEN Throw([s EXCEPT !.schedClassActive[c].tree = rest],
                        "the process was not found at the time it should be at")
             ELSE [s EXCEPT !.schedClassActive[c].tree =
                                TreePut(rest, s.procList[left[1]].vruntime, left)]

\* the placement of an enqueued process: brand new, or just woken up
Fair_place(s, c, p) ==
    IF s.procList[p].vruntime = 0
    THEN Fair_placeEntity(s, c, p, TRUE)
    ELSE IF s.procList[p].enqueueWakeup
    THEN [Fair_placeEntity(s, c, p, FALSE) EXCEPT !.procList[p].enqueueWakeup = FALSE]
    ELSE s

\* LinuxFairClass.enqueue
Fair_enqueue(s, c, p) ==
    Then(SchedClass_enqueue(s, p), LAMBDA s1 :
    Then(Fair_updateCurr([s1 EXCEPT !.procList[p].onRq = FALSE], c, s1.curr), LAMBDA s2 :
         [Fair_enqueueEntity(
              Fair_place([s2 EXCEPT !.schedClassActive[c].load =
                                        @ + getLoad(s2.procList[p].currBehavior.priority),
                                    !.schedClassActive[c].enqueued = @ + 1], c, p), c, p)
             EXCEPT !.procList[p].onRq = TRUE]))

\* LinuxFairClass.dequeue
Fair_dequeue(s, c, p) ==
    Then(SchedClass_dequeue(s, p), LAMBDA s1 :
    Then(Fair_updateCurr([s1 EXCEPT !.procList[p].onRq = TRUE], c, s1.curr), LAMBDA s2 :
    Then(Fair_dequeueEntity(s2, c, p), LAMBDA s3 :
         [s3 EXCEPT !.procList[p].onRq = FALSE,
                    !.schedClassActive[c].load =
                        @ - getLoad(s3.procList[p].currBehavior.priority),
                    !.schedClassActive[c].enqueued = @ - 1,
                    !.procList[p].enqueueWakeup =
                        IF ~s3.procList[p].runnable THEN TRUE ELSE @])))

\* LinuxFairClass.putPrev
Fair_putPrev(s, c, prev) ==
    Then(SchedClass_putPrev(s), LAMBDA s1 :
    Then(Fair_updateCurr(s1, c, prev), LAMBDA s2 :
         [(IF s2.procList[prev].runnable
           THEN [Fair_enqueueEntity(s2, c, prev) EXCEPT
                     !.procList[prev].onRq = TRUE,
                     !.schedClassActive[c].enqueued = @ + 1]
           ELSE s2)
             EXCEPT !.schedClassActive[c].curr = NullPid]))

(***************************************************************************)
(* SJFClass: the runqueue is a tree of the processes by remainingRuntime,  *)
(* as that of LinuxFairClass is by vruntime.  (history: enqueues counts the *)
(* calls of enqueue and enqueueNo is the number of the call that stored    *)
(* the process; sjfPicks holds, for every process that pickNext returned   *)
(* in the step, its remainingRuntime and enqueueNo and those of the        *)
(* processes left in the tree)                                             *)
(***************************************************************************)
SJFName == "SJFClass"

Stamp(s, p) ==
    [remainingRuntime |-> s.procList[p].remainingRuntime,
     enqueueNo |-> s.procList[p].enqueueNo]

\* variant of SJFClass.enqueue that stores the process ahead of those of the
\* same remainingRuntime
SJF_enqueueAhead(s, c, p) ==
    Then(SchedClass_enqueue(s, p), LAMBDA s1 :
         LET remainingRuntime == IF s1.procList[p].remainingRuntime = 0
                                 THEN s1.procList[p].currBehavior.run
                                 ELSE s1.procList[p].remainingRuntime
             t == s1.schedClassActive[c].tree
             holder == BucketPids(TreeBucket(t, remainingRuntime))
         IN  [s1 EXCEPT !.schedClassActive[c].enqueued = @ + 1,
                        !.schedClassActive[c].enqueues = @ + 1,
                        !.procList[p].enqueueNo = s1.schedClassActive[c].enqueues + 1,
                        !.procList[p].remainingRuntime = remainingRuntime,
                        !.procList[p].prevRemaining = remainingRuntime,
                        !.schedClassActive[c].tree =
                            TreePut(TreeWithout(t, remainingRuntime), remainingRuntime,
                                    <<p>> \o holder)])

SJF_enqueue(s, c, p) ==
    Then(SchedClass_enqueue(s, p), LAMBDA s1 :
         LET remainingRuntime == IF s1.procList[p].remainingRuntime = 0
                                 THEN s1.procList[p].currBehavior.run
                                 ELSE s1.procList[p].remainingRuntime
             t == s1.schedClassActive[c].tree
             holder == BucketPids(TreeBucket(t, remainingRuntime))
         IN  [s1 EXCEPT !.schedClassActive[c].enqueued = @ + 1,
                        !.schedClassActive[c].enqueues = @ + 1,
                        !.procList[p].enqueueNo = s1.schedClassActive[c].enqueues + 1,
                        !.procList[p].remainingRuntime = remainingRuntime,
                        !.procList[p].prevRemaining = remainingRuntime,
                        !.schedClassActive[c].tree =
                            TreePut(TreeWithout(t, remainingRuntime), remainingRuntime,
                                    Append(holder, p))])

SJF_dequeue(s, c, p) ==
    Then(SchedClass_dequeue(s, p), LAMBDA s1 :
         LET k == s1.procList[p].prevRemaining
             t == s1.schedClassActive[c].tree
             holder == BucketPids(TreeBucket(t, k))
             rest == TreeWithout(t, k)
             s2 == [s1 EXCEPT !.schedClassActive[c].enqueued = @ - 1,
                              !.schedClassActive[c].tree = rest]
         IN  IF Len(holder) = 0
             THEN Throw(s2, "the process was not found at the time it should be at")
             ELSE IF Len(holder) = 1 THEN s2
             ELSE IF RemoveFirst(holder, p) = holder
             THEN Throw(s2, "the process was not found at the time it should be at")
             ELSE [s2 EXCEPT !.schedClassActive[c].tree =
                                 TreePut(rest, k, RemoveFirst(holder, p))])

SJF_putPrev(s, c, prev) ==
    Then(SchedClass_putPrev(s), LAMBDA s1 :
         IF s1.procList[prev].runnable THEN SJF_enqueue(s1, c, prev) ELSE s1)

(***************************************************************************)
(* LinuxO1Class: two runqueue objects (x and y), one of them the active    *)
(* and the other the expired one, each with a list per priority, a bitmap  *)
(* of the lists in use and a count.  Of the 140 lists those of the         *)
(* priorities of the configurations are kept.                              *)
(***************************************************************************)
O1Name == "LinuxO1Class"

O1Priorities == {0 - 1, 0, 1}

\* the two lowest priorities, those of the shortest time slices
O1LowPriorities == {18, 19}

O1Lists == {priority + 120 : priority \in O1Priorities \cup O1LowPriorities}

O1TimeScale == 1

\* LinuxO1Class.getTimesliceLen: timeScale * Math.round(prio * 20.4 + 5)
getTimesliceLen(priority) ==
    IF priority < 0 - 20 THEN O1TimeScale * 900
    ELSE O1TimeScale * ((((19 - priority) * 204 + 50) + 5) \div 10)

NewO1Runqueue == [bitmap |-> {}, count |-> 0, rq |-> [listNo \in O1Lists |-> <<>>]]

O1Expired(cl) == IF cl.active = "x" THEN "y" ELSE "x"

\* LinuxO1Class.enqueue (history: o1Expiries holds the processes that the
\* step has put into the expired runqueue, and which object that was)
O1_enqueue(s, c, p, expired) ==
    Then(SchedClass_enqueue(s, p), LAMBDA s1 :
         LET pr == s1.procList[p]
             cl == s1.schedClassActive[c]
             currRq == IF expired \/ pr.timeSlice = 0 THEN O1Expired(cl) ELSE cl.active
             listNo == pr.currBehavior.priority + 120
         IN  [s1 EXCEPT !.procList[p].timeSlice =
                            IF ~expired /\ @ = 0 THEN getTimesliceLen(pr.currBehavior.priority)
                            ELSE @,
                        !.schedClassActive[c].rqs[currRq].rq[listNo] = Append(@, p),
                        !.schedClassActive[c].rqs[currRq].bitmap = @ \cup {listNo},
                        !.schedClassActive[c].rqs[currRq].count = @ + 1,
                        !.o1Expiries = @ \cup (IF expired \/ pr.timeSlice = 0
                                               THEN {[proc |-> p, into |-> currRq]}
                                               ELSE {}),
                        !.procList[p].o1rq = currRq])

\* LinuxO1Class.dequeue
O1_dequeue(s, c, p) ==
    Then(SchedClass_dequeue(s, p), LAMBDA s1 :
         LET pr == s1.procList[p]
             listNo == pr.currBehavior.priority + 120
             currRq == pr.o1rq
             list == RemoveFirst(s1.schedClassActive[c].rqs[currRq].rq[listNo], p)
         IN  [s1 EXCEPT !.schedClassActive[c].rqs[currRq].rq[listNo] = list,
                        !.schedClassActive[c].rqs[currRq].bitmap =
                            IF Len(list) < 1 THEN @ \ {listNo} ELSE @,
                        !.schedClassActive[c].rqs[currRq].count = @ - 1])

\* LinuxO1Class.putPrev
O1_putPrev(s, c, prev) ==
    Then(SchedClass_putPrev(s), LAMBDA s1 :
         LET now == s1.simulationTime
             pr == s1.procList[prev]
             timeSlice == IF pr.updated # now THEN Max(pr.timeSlice - (now - pr.updated), 0)
                          ELSE pr.timeSlice
             s2 == [s1 EXCEPT !.procList[prev].timeSlice = timeSlice,
                              !.procList[prev].updated = now]
         IN  IF pr.onRq /\ timeSlice = 0
             THEN Then(O1_dequeue(s2, c, prev), LAMBDA s3 :
                       O1_enqueue([s3 EXCEPT !.procList[prev].timeSlice =
                                                 getTimesliceLen(pr.currBehavior.priority)],
                                  c, prev, TRUE))
             ELSE s2)

(***************************************************************************)
(* Dispatch of the policy protocol on the scheduling class of a process.   *)
(***************************************************************************)
Class_enqueue(s, p) ==
    IF Failed(s) THEN s
    ELSE IF PolicyOf(s, p) = "FCFSClass" THEN FCFS_enqueue(s, PolicyOf(s, p), p)
    ELSE IF PolicyOf(s, p) \in {"RoundClass", TemplateName}
    THEN Round_enqueue(s, PolicyOf(s, p), p)
    ELSE IF PolicyOf(s, p) = SJFName THEN SJF_enqueue(s, PolicyOf(s, p), p)
    ELSE IF PolicyOf(s, p) = O1Name THEN O1_enqueue(s, PolicyOf(s, p), p, FALSE)
    ELSE Fair_enqueue(s, PolicyOf(s, p), p)

Class_dequeue(s, p) ==
    IF Failed(s) THEN s
    ELSE IF PolicyOf(s, p) = "FCFSClass" THEN FCFS_dequeue(s, PolicyOf(s, p), p)
    ELSE IF PolicyOf(s, p) \in {"RoundClass", TemplateName}
    THEN Round_dequeue(s, PolicyOf(s, p), p)
    ELSE IF PolicyOf(s, p) = SJFName THEN SJF_dequeue(s, PolicyOf(s, p), p)
    ELSE IF PolicyOf(s, p) = O1Name THEN O1_dequeue(s, PolicyOf(s, p), p)
    ELSE Fair_dequeue(s, PolicyOf(s, p), p)

\* Simulator.putPrev: prev.schedClass.putPrev(prev)
Simulator_putPrev(s, prev) ==
    IF Failed(s) THEN s
    ELSE IF PolicyOf(s, prev) = IdleClassName THEN SchedClass_putPrev(s)
    ELSE IF PolicyOf(s, prev) = "FCFSClass" THEN FCFS_putPrev(s, PolicyOf(s, prev), prev)
    ELSE IF PolicyOf(s, prev) = "RoundClass" THEN Round_putPrev(s, PolicyOf(s, prev), prev)
    ELSE IF PolicyOf(s, prev) = TemplateName
    THEN Template_putPrev(s, PolicyOf(s, prev), prev)
    ELSE IF PolicyOf(s, prev) = SJFName THEN SJF_putPrev(s, PolicyOf(s, prev), prev)
    ELSE IF PolicyOf(s, prev) = O1Name THEN O1_putPrev(s, PolicyOf(s, prev), prev)
    ELSE Fair_putPrev(s, PolicyOf(s, prev), prev)

\* FCFSClass.pickNext; the returned process is left in s.ret (NullPid for null)
FCFS_pickNext(s, c, prev) ==
    Then(SchedClass_pickNext(s, c), LAMBDA s1 :
         IF Len(s1.schedClassActive[c].runqueue) > 0
         THEN Then(Simulator_putPrev(s1, prev), LAMBDA s2 :
                   [s2 EXCEPT !.ret = s2.schedClassActive[c].runqueue[1]])
         ELSE [s1 EXCEPT !.ret = NullPid])

\* RoundClass.pickNext
Round_pickNext(s, c, prev) ==
    Then(SchedClass_pickNext(s, c), LAMBDA s1 :
         IF Len(s1.schedClassActive[c].runqueue) > 0
         THEN Then(Simulator_putPrev(s1, prev), LAMBDA s2 :
                   [s2 EXCEPT !.procList[s2.schedClassActive[c].runqueue[1]].updated =
                                  s2.simulationTime,
                              !.ret = s2.schedClassActive[c].runqueue[1]])
         ELSE [s1 EXCEPT !.ret = NullPid])

\* SchedClassTemplate.pickNext, as written or with the fault of the class
Template_pickNext(s, c, prev) ==
    Then(SchedClass_pickNext(s, c), LAMBDA s1 :
         IF Len(s1.schedClassActive[c].runqueue) > 0
         THEN Then(IF s1.schedClassActive[c].fault = "noPutPrev" THEN s1
                   ELSE Simulator_putPrev(s1, prev), LAMBDA s2 :
                   [s2 EXCEPT !.procList[s2.schedClassActive[c].runqueue[1]].updated =
                                  s2.simulationTime,
                              !.ret = s2.schedClassActive[c].runqueue[1]])
         ELSE Then(IF s1.schedClassActive[c].fault = "nullPutPrev"
                   THEN Simulator_putPrev(s1, prev) ELSE s1, LAMBDA s2 :
                   [s2 EXCEPT !.ret = NullPid]))

\* LinuxFairClass.pickNext, from the leftmost process of the tree on
Fair_pickLeft(s, c, picked) ==
    Then(Fair_dequeueEntity(s, c, picked), LAMBDA s3 :
         [s3 EXCEPT !.procList[picked].onRq = FALSE,
                    !.schedClassActive[c].enqueued = @ - 1,
                    !.procList[picked].updated = s3.simulationTime,
                    !.schedClassActive[c].curr = picked,
                    !.procList[picked].prevSumExecRuntime = s3.procList[picked].execTime,
                    !.ret = picked])

\* LinuxFairClass.pickNext
Fair_pickNext(s, c, prev) ==
    Then(SchedClass_pickNext(s, c), LAMBDA s1 :
         IF s1.schedClassActive[c].enqueued = 0 /\ s1.schedClassActive[c].nrRunning = 0
         THEN [s1 EXCEPT !.ret = NullPid]
         ELSE IF /\ s1.schedClassActive[c].enqueued = 0
                 /\ PolicyOf(s1, prev) = c /\ ProcRunnable(s1, prev)
         THEN Then(Simulator_putPrev(s1, prev), LAMBDA s2 : [s2 EXCEPT !.ret = prev])
         ELSE Then(Simulator_putPrev(s1, prev), LAMBDA s2 :
                   IF Len(s2.schedClassActive[c].tree) = 0
                   THEN Throw(s2, "the runqueue is empty or has an invalid value stored in it")
                   ELSE Fair_pickLeft(s2, c, s2.schedClassActive[c].tree[1].pid)))

\* SJFClass.pickNext: the first process of the leftmost holder
SJF_pickNext(s, c, prev) ==
    Then(SchedClass_pickNext(s, c), LAMBDA s1 :
         IF s1.schedClassActive[c].enqueued = 0 THEN [s1 EXCEPT !.ret = NullPid]
         ELSE Then(Simulator_putPrev(s1, prev), LAMBDA s2 :
              IF Len(s2.schedClassActive[c].tree) = 0
              THEN Throw(s2, "the runqueue is empty or has an invalid value stored in it")
              ELSE LET t == s2.schedClassActive[c].tree
                       holder == BucketPids(TreeBucket(t, t[1].key))
                       rest == TreeWithout(t, t[1].key)
                       left == IF Len(holder) = 1 THEN rest
                               ELSE TreePut(rest, s2.procList[holder[2]].remainingRuntime,
                                            Tail(holder))
                   IN  [s2 EXCEPT !.schedClassActive[c].tree = left,
                                  !.procList[holder[1]].onRq = FALSE,
                                  !.schedClassActive[c].enqueued = @ - 1,
                                  !.sjfPicks =
                                      @ \cup {[picked |-> Stamp(s2, holder[1]),
                                               left |-> {Stamp(s2, left[i].pid) :
                                                            i \in 1..Len(left)}]},
                                  !.ret = holder[1]]))

\* LinuxO1Class.pickNext: the first process of the first list in use of the
\* active runqueue, after a swap of the two when the active one counts none
\* (history: o1Picks holds, for every call in the step that got as far as
\* the putPrev call, the process returned, the runqueue objects after putPrev
\* and which of them was the active one before and after the swap)
O1_pickNext(s, c, prev) ==
    Then(SchedClass_pickNext(s, c), LAMBDA s1 :
         IF s1.schedClassActive[c].rqs["x"].count > 0 \/ s1.schedClassActive[c].rqs["y"].count > 0
         THEN Then(Simulator_putPrev(s1, prev), LAMBDA s2 :
                   LET cl == s2.schedClassActive[c]
                       active == IF cl.rqs[cl.active].count = 0 THEN O1Expired(cl) ELSE cl.active
                       bitmap == cl.rqs[active].bitmap
                       first == CHOOSE i \in bitmap : \A j \in bitmap : i <= j
                       s3 == [s2 EXCEPT !.schedClassActive[c].active = active]
                   IN  IF bitmap = {}
                       THEN [s3 EXCEPT !.ret = NullPid,
                                       !.o1Picks = @ \cup {[picked |-> NullPid, rqs |-> cl.rqs,
                                                            before |-> cl.active,
                                                            after |-> active]}]
                       ELSE [s3 EXCEPT !.procList[cl.rqs[active].rq[first][1]].updated =
                                           s2.simulationTime,
                                       !.o1Picks = @ \cup {[picked |-> cl.rqs[active].rq[first][1],
                                                            rqs |-> cl.rqs,
                                                            before |-> cl.active,
                                                            after |-> active]},
                                       !.ret = cl.rqs[active].rq[first][1]])
         ELSE [s1 EXCEPT !.ret = NullPid])

Class_pickNext(s, c, prev) ==
    IF Failed(s) THEN s
    ELSE IF c = SJFName THEN SJF_pickNext(s, c, prev)
    ELSE IF c = O1Name THEN O1_pickNext(s, c, prev)
    ELSE IF c = "FCFSClass" THEN FCFS_pickNext(s, c, prev)
    ELSE IF c = "RoundClass" THEN Round_pickNext(s, c, prev)
    ELSE IF c = TemplateName THEN Template_pickNext(s, c, prev)
    ELSE Fair_pickNext(s, c, prev)

(***************************************************************************)
(* The kernel: handleBlock, handleExit, handlePreempt.                     *)
(***************************************************************************)
\* the bookkeeping of a finished run of a process: execTime and runLog
\* (history: burstRun is what the process has run of its current burst)
\* a variant that measures the run from the time the process was enqueued,
\* so that the time it waited is counted as executed
AccountRunSinceEnqueued(pr, now) ==
    [pr EXCEPT !.picked = now,
               !.execTime = @ + (now - pr.enqueued),
               !.runLog = Append(@, now - pr.enqueued),
               !.burstRun = @ + (now - pr.picked)]

AccountRun(pr, now) ==
    [pr EXCEPT !.picked = now,
               !.execTime = @ + (now - pr.picked),
               !.runLog = Append(@, now - pr.picked),
               !.burstRun = @ + (now - pr.picked)]

\* handleBlock from the dequeue of the blocked process on
BlockDequeued(s, p) ==
    LET enq == NewEvent(s, "Enqueue", s.simulationTime + s.procList[p].currBehavior.block,
                        p, "none", FALSE)
    IN  Then(insertEvent(s, enq), LAMBDA s3 :
             [s3 EXCEPT !.procList[p].nextEvent = enq,
                        !.schedClassActive[PolicyOf(s3, p)].nrRunning = @ - 1])

\* variant of handleBlock that leaves the blocked process on its runqueue
handleBlockStillStored(s, evt) ==
    IF Failed(s) THEN s
    ELSE LET p == evt.proc
             s1 == [s EXCEPT !.procList[p] =
                        AccountRun([@ EXCEPT !.remainingRuntime = 0, !.runnable = FALSE],
                                   s.simulationTime)]
         IN  BlockDequeued(s1, p)

handleBlock(s, evt) ==
    IF Failed(s) THEN s
    ELSE LET p == evt.proc
             s1 == [s EXCEPT !.procList[p] =
                        AccountRun([@ EXCEPT !.remainingRuntime = 0, !.runnable = FALSE],
                                   s.simulationTime)]
         IN  Then(IF s.procList[p].onRq THEN Class_dequeue(s1, p) ELSE s1,
                  LAMBDA s2 : BlockDequeued(s2, p))

\* variant of ExitAccount that leaves the waiting flag of the process set
ExitAccountStillWaiting(s, p) ==
    LET now == s.simulationTime
        c == PolicyOf(s, p)
        s4 == [s EXCEPT !.liveProcessCount = @ - 1]
        pWaitTime == now - s.procList[p].enqueued
    IN  IF p = s.curr
        THEN [s4 EXCEPT !.procList[p] = AccountRun([@ EXCEPT !.remainingRuntime = 0], now)]
        ELSE IF s.procList[p].waiting
        THEN [FlushLatency([s4 EXCEPT !.procList[p].waitTime = @ + pWaitTime], c)
                 EXCEPT !.schedClassActive[c].latencySum = @ - pWaitTime,
                        !.schedClassActive[c].nrWaiting = @ - 1,
                        !.schedClassActive[c].nrRunning = @ - 1]
        ELSE s4

\* handleExit: the accounting of the exiting process (running, waiting, blocked)
ExitAccount(s, p) ==
    LET now == s.simulationTime
        c == PolicyOf(s, p)
        s4 == [s EXCEPT !.liveProcessCount = @ - 1]
        pWaitTime == now - s.procList[p].enqueued
    IN  IF p = s.curr
        THEN [s4 EXCEPT !.procList[p] = AccountRun([@ EXCEPT !.remainingRuntime = 0], now)]
        ELSE IF s.procList[p].waiting
        THEN [FlushLatency([s4 EXCEPT !.procList[p].waitTime = @ + pWaitTime,
                                      !.procList[p].waiting = FALSE], c)
                 EXCEPT !.schedClassActive[c].latencySum = @ - pWaitTime,
                        !.schedClassActive[c].nrWaiting = @ - 1,
                        !.schedClassActive[c].nrRunning = @ - 1]
        ELSE s4

\* handleExit from the dequeue of the exiting process on
ExitDequeued(s, evt) ==
    LET ne == s.procList[evt.proc].nextEvent
    IN  Then(IF ne.id # evt.id /\ IsEvent(ne) /\ ne.time >= s.simulationTime
             THEN deleteEvent(s, ne) ELSE s,
             LAMBDA s3 : ExitAccount(s3, evt.proc))

\* (history: exitedFrom is what the process was doing when it exited)
handleExit(s, evt) ==
    IF Failed(s) THEN s
    ELSE LET p == evt.proc
             s1 == [s EXCEPT !.procList[p].runnable = FALSE,
                             !.procList[p].alive = FALSE,
                             !.procList[p].exited = s.simulationTime,
                             !.procList[p].exitedFrom =
                                 IF p = s.curr THEN "running"
                                 ELSE IF s.procList[p].waiting THEN "waiting"
                                 ELSE "blocked"]
         IN  Then(IF s.procList[p].onRq THEN Class_dequeue(s1, p) ELSE s1,
                  LAMBDA s2 : ExitDequeued(s2, evt))

\* handlePreempt, the branch of an end event at the current time
PreemptAtEndEvent(s, p) ==
    LET pr == s.procList[p]
        currNextEvent == pr.nextEvent
    IN  IF pr.remainingRuntime > 0
        THEN Throw(s, "next event of preempted process at current time, but remainingRuntime > 0")
        ELSE IF pr.nextEvent.time # s.simulationTime
        THEN Throw(s, "remainingRuntime == 0 for preempted process, but its next event is later")
        ELSE IF currNextEvent.type \notin {"Block", "Exit"}
        THEN Throw(s, "proc.nextEvent is not an end event (block or exit)")
        ELSE Then(IF currNextEvent.type = "Block" THEN handleBlock(s, currNextEvent)
                  ELSE handleExit(s, currNextEvent), LAMBDA s1 :
             Then(deleteEvent(s1, currNextEvent), LAMBDA s2 :
                  [s2 EXCEPT !.procList[p].nextEvent = NoEvent]))

\* variant of PreemptRequeue that leaves a pending Exit event in the queue
PreemptRequeueKeepExit(s, p) ==
    LET ne == s.procList[p].nextEvent
    IN  IF IsEvent(ne) /\ ne.type # "Exit"
        THEN Then(deleteEvent(s, ne), LAMBDA s3 :
                  [s3 EXCEPT !.procList[p].nextEvent = NoEvent])
        ELSE s

\* handlePreempt, the requeue of a process preempted before its end event
PreemptRequeue(s, p) ==
    LET ne == s.procList[p].nextEvent
        moved == [ne EXCEPT !.time = s.simulationTime]
    IN  IF ne.type = "Exit" /\ ne.cond = "simExec" /\ ~ne.nice
        THEN s
        ELSE IF ne.type = "Exit" /\ ne.cond = "execCnt" /\ ~ne.nice
        THEN Then(deleteEvent(s, ne), LAMBDA s3 :
                  [insertEvent(s3, moved) EXCEPT !.procList[p].nextEvent = moved])
        ELSE IF IsEvent(ne)
        THEN Then(deleteEvent(s, ne), LAMBDA s3 :
                  [s3 EXCEPT !.procList[p].nextEvent = NoEvent])
        ELSE s

\* (history: endNow holds the processes preempted during the step at the very
\* time of their pending Block or Exit event)
handlePreempt(s, p) ==
    IF Failed(s) THEN s
    ELSE IF ~s.procList[p].alive THEN Throw(s, "attempting to handle a dead process")
    ELSE LET now == s.simulationTime
             lastRun == now - s.procList[p].picked
             c == PolicyOf(s, p)
             s1 == [s EXCEPT !.procList[p].remainingRuntime = @ - lastRun]
             pr1 == s1.procList[p]
         IN  IF pr1.remainingRuntime > 0 /\ ~IsEvent(pr1.nextEvent)
             THEN Throw(s1, "TypeError: proc.nextEvent is null")
             ELSE IF pr1.remainingRuntime <= 0 \/ pr1.nextEvent.time = now
             THEN PreemptAtEndEvent(
                      IF pr1.nextEvent.time = now /\ pr1.nextEvent.type \in {"Block", "Exit"}
                      THEN [s1 EXCEPT !.endNow = @ \cup {p}] ELSE s1, p)
             ELSE PreemptRequeue(
                      [FlushLatency([s1 EXCEPT !.procList[p] = AccountRun(@, now)], c)
                          EXCEPT !.procList[p].enqueued = now,
                                 !.procList[p].waiting = TRUE,
                                 !.schedClassActive[c].nrWaiting = @ + 1,
                                 !.preempted = @ \cup {p}], p)

(***************************************************************************)
(* Simulator.pickNext                                                      *)
(***************************************************************************)
\* the loop over schedClassPrio: the classes are asked in priority order until
\* one returns a process, the others only update their latency
NoPutPrevError ==
    "the scheduling class returned a process to run, but never made a call to putPrev"

NullPutPrevError == "the scheduling class returned null, but made a call to putPrev"

\* variant of CheckAnswer that accepts every answer
AcceptAnswer(s) == s

\* the check of the answer of a class against the calledPutPrev flag
CheckAnswer(s) ==
    IF s.ret # NullPid /\ ~s.calledPutPrev THEN Throw(s, NoPutPrevError)
    ELSE IF s.ret = NullPid /\ s.calledPutPrev THEN Throw(s, NullPutPrevError)
    ELSE s

\* (history: answer is what the class asked last returned, and the number of
\* putPrev calls of the dispatch cycle at that moment)
RECURSIVE AskClasses(_, _, _, _)
AskClasses(s, i, next, prev) ==
    IF Failed(s) \/ i > Len(s.schedClassPrio) THEN [s EXCEPT !.ret = next]
    ELSE IF next = NullPid
    THEN Then(Class_pickNext(s, s.schedClassPrio[i], prev), LAMBDA s1 :
         Then(CheckAnswer([s1 EXCEPT !.answer = [ret |-> s1.ret,
                                                  nrPutPrev |-> s1.nrPutPrev]]),
              LAMBDA s2 : AskClasses(s2, i + 1, s2.ret, prev)))
    ELSE AskClasses(SchedClass_updateLatency(s, s.schedClassPrio[i]), i + 1, next, prev)

\* the latency statistics of the picked process
PickLatency(s, next) ==
    LET c == PolicyOf(s, next)
        pWaitTime == s.simulationTime - s.procList[next].enqueued
    IN  IF s.procList[next].waiting
        THEN [FlushLatency([s EXCEPT !.procList[next].waitTime = @ + pWaitTime,
                                     !.procList[next].waiting = FALSE], c)
                 EXCEPT !.schedClassActive[c].latencySum = @ - pWaitTime,
                        !.schedClassActive[c].nrWaiting = @ - 1]
        ELSE s

CondMet(nextBeh, pr, now) ==
    \/ nextBeh.procExec # 0 /\ pr.execTime >= nextBeh.procExec
    \/ nextBeh.simExec # 0 /\ now >= nextBeh.simExec
    \/ nextBeh.execCnt # 0 /\ pr.execCnt >= nextBeh.execCnt

\* variant of UpdateBehavior that also switches to an entry that is final
UpdateBehaviorPastFinal(s, next) ==
    LET pr == s.procList[next]
        nextBeh == pr.behavior[pr.nextBehIndex + 1]
    IN  IF pr.nextBehIndex < Len(pr.behavior)
           /\ CondMet(nextBeh, pr, s.simulationTime)
        THEN [s EXCEPT !.procList[next].currBehavior =
                           [run |-> IF nextBeh.run # 0 THEN nextBeh.run ELSE @.run,
                            block |-> IF nextBeh.block # 0 THEN nextBeh.block ELSE @.block,
                            priority |-> IF nextBeh.hasPriority THEN nextBeh.priority
                                         ELSE @.priority],
                       !.procList[next].nextBehIndex = @ + 1]
        ELSE s

\* the behavior update of the picked process (a field that is 0, or whose
\* hasPriority is FALSE, is undefined in the behavior entry)
UpdateBehavior(s, next) ==
    LET pr == s.procList[next]
        nextBeh == pr.behavior[pr.nextBehIndex + 1]
    IN  IF pr.nextBehIndex < Len(pr.behavior) /\ ~nextBeh.final
           /\ CondMet(nextBeh, pr, s.simulationTime)
        THEN [s EXCEPT !.procList[next].currBehavior =
                           [run |-> IF nextBeh.run # 0 THEN nextBeh.run ELSE @.run,
                            block |-> IF nextBeh.block # 0 THEN nextBeh.block ELSE @.block,
                            priority |-> IF nextBeh.hasPriority THEN nextBeh.priority
                                         ELSE @.priority],
                       !.procList[next].nextBehIndex = @ + 1]
        ELSE s

\* use up the remaining runtime if there is any left, else decide on a new one
\* (history: burstLen is the length of the burst that starts)
SetRunTime(s, next) ==
    IF s.procList[next].remainingRuntime > 0 THEN s
    ELSE [s EXCEPT !.procList[next].remainingRuntime = s.procList[next].currBehavior.run,
                   !.procList[next].burstLen = s.procList[next].currBehavior.run,
                   !.procList[next].burstRun = 0]

\* place an exit event at endTime and link it in the process
PlaceExit(s, next, endTime, cond, nice) ==
    LET e == NewEvent(s, "Exit", endTime, next, cond, nice)
    IN  Then(insertEvent(s, e), LAMBDA s4 :
             [s4 EXCEPT !.procList[next].nextEvent = e, !.endEventSet = TRUE])

\* the strict exit event of a non-nice simExec entry
PlaceStrictExit(s, next, simExec) ==
    LET now == s.simulationTime
        pr == s.procList[next]
        strict == NewEvent(s, "Exit", IF simExec < now THEN now ELSE simExec,
                           next, "simExec", FALSE)
    IN  Then(IF IsEvent(pr.strictEndEvent) THEN deleteEvent(s, pr.strictEndEvent) ELSE s,
             LAMBDA s2 :
        Then(insertEvent(s2, strict), LAMBDA s3 :
             IF now + pr.remainingRuntime >= simExec
             THEN [s3 EXCEPT !.procList[next].strictEndEvent = strict,
                             !.procList[next].nextEvent = strict,
                             !.endEventSet = TRUE]
             ELSE [s3 EXCEPT !.procList[next].strictEndEvent = strict]))

\* the final / exit behavior entry nextBeh of the picked process, its runtime
\* set; s.endEventSet tells whether the end event of the process has been set
FinalEntry(s, next, nextBeh) ==
    LET now == s.simulationTime
        pr == s.procList[next]
        runTime == pr.remainingRuntime
    IN  IF nextBeh.procExec # 0 /\ pr.execTime + runTime >= nextBeh.procExec
        THEN (IF nextBeh.endNicely THEN PlaceExit(s, next, now + runTime, "procExec", TRUE)
              ELSE IF pr.execTime >= nextBeh.procExec
              THEN PlaceExit(s, next, now + 1, "procExec", FALSE)
              ELSE PlaceExit(s, next, now + (nextBeh.procExec - pr.execTime),
                             "procExec", FALSE))
        ELSE IF nextBeh.simExec # 0
        THEN (IF nextBeh.endNicely
              THEN (IF now + runTime >= nextBeh.simExec
                    THEN PlaceExit(s, next, now + runTime, "simExec", TRUE)
                    ELSE s)
              ELSE PlaceStrictExit(s, next, nextBeh.simExec))
        ELSE IF nextBeh.execCnt # 0 /\ pr.execCnt + 1 >= nextBeh.execCnt
        THEN PlaceExit(s, next, now + runTime, "execCnt", nextBeh.endNicely)
        ELSE s

SetExitEvent(s, next) ==
    LET pr0 == s.procList[next]
        nextBeh == pr0.behavior[pr0.nextBehIndex + 1]
    IN  IF Failed(s) THEN s
        ELSE IF ~(pr0.nextBehIndex < Len(pr0.behavior) /\ nextBeh.final) THEN s
        ELSE FinalEntry(SetRunTime(s, next), next, nextBeh)

\* the block event of the picked process, unless its exit event was set
SetBlockEvent(s, next) ==
    LET s1 == SetRunTime(s, next)
        e == NewEvent(s1, "Block", s1.simulationTime + s1.procList[next].remainingRuntime,
                      next, "none", FALSE)
    IN  IF Failed(s) \/ s.endEventSet THEN s
        ELSE Then(insertEvent(s1, e), LAMBDA s2 : [s2 EXCEPT !.procList[next].nextEvent = e])

\* pickNext for the idle process: its single behavior entry has no condition
PickIdle(s) ==
    LET now == s.simulationTime
        runTime == IF s.idle.remainingRuntime > 0 THEN s.idle.remainingRuntime
                   ELSE s.simulationLen
        e == NewEvent(s, "Block", now + runTime, IdlePid, "none", FALSE)
    IN  Then(insertEvent(s, e), LAMBDA s1 :
             [s1 EXCEPT !.idle.execCnt = @ + 1,
                        !.idle.remainingRuntime = runTime,
                        !.idle.nextEvent = e,
                        !.idle.picked = now,
                        !.curr = IdlePid])

\* pickNext from the answer of the classes (s.ret) on
\* (history: firstPick is the time of the first pick of the process)
Picked(s, next) ==
    Then(SetExitEvent([UpdateBehavior(PickLatency([s EXCEPT !.contextSwitches = @ + 1], next),
                                      next)
                          EXCEPT !.endEventSet = FALSE], next), LAMBDA s6 :
    Then(SetBlockEvent([s6 EXCEPT !.procList[next].execCnt = @ + 1], next), LAMBDA s8 :
         [s8 EXCEPT !.procList[next].picked = s8.simulationTime,
                    !.procList[next].firstPick =
                        IF @ < 0 THEN s8.simulationTime ELSE @,
                    !.curr = next]))

Simulator_pickNext(s) ==
    IF Failed(s) THEN s
    ELSE Then(IF ProcRunnable(s, s.curr)
              THEN handlePreempt([s EXCEPT !.pickCalls = @ + 1], s.curr)
              ELSE [s EXCEPT !.pickCalls = @ + 1], LAMBDA s1 :
         Then(AskClasses([s1 EXCEPT !.calledPutPrev = FALSE, !.nrPutPrev = 0],
                         1, NullPid, s.curr), LAMBDA s2 :
              LET next == s2.ret
                  s3 == [s2 EXCEPT !.nrPicks = @ + 1,
                                   !.lastPick =
                                       [time |-> s2.simulationTime,
                                        proc |-> IF next = NullPid THEN IdlePid ELSE next,
                                        prev |-> s.curr,
                                        returned |-> next # NullPid,
                                        nrPutPrev |-> s2.nrPutPrev]]
              IN  IF next = NullPid THEN PickIdle(s3) ELSE Picked(s3, next)))

(***************************************************************************)
(* checkPreempt and taskTick of the classes, Simulator.checkPreempt.       *)
(***************************************************************************)
\* x > f for a slice f = num / den computed by schedSlice (NaN compares false)
ExceedsSlice(x, f) ==
    /\ ~f.nan
    /\ \/ f.den > 0 /\ x * f.den > f.num
       \/ f.den < 0 /\ x * f.den < f.num

\* RoundClass.taskTick
Round_taskTick(s, c) ==
    LET now == s.simulationTime
        p == s.curr
        s1 == [s EXCEPT !.procList[p].timeSlice = @ - (now - s.procList[p].updated),
                        !.procList[p].updated = now]
    IN  IF s1.procList[p].timeSlice <= 0 THEN Simulator_pickNext(s1) ELSE s1

\* LinuxFairClass.checkPreempt
Fair_checkPreempt(s, c, p) ==
    Then(Fair_updateCurr(s, c, s.curr), LAMBDA s1 :
         IF s1.procList[s1.curr].vruntime - s1.procList[p].vruntime
                > calcDeltaFair(s1, s1.schedClassActive[c].schedWakeupGranularity, p)
         THEN Simulator_pickNext(s1)
         ELSE s1)

\* LinuxFairClass.taskTick
Fair_taskTick(s, c) ==
    Then(Fair_updateCurr(s, c, s.curr), LAMBDA s1 :
         LET now == s1.simulationTime
             cl == s1.schedClassActive[c]
             pr == s1.procList[s1.curr]
             idealRuntime == schedSlice(s1, c, s1.curr)
             deltaExec == (pr.execTime + now - pr.picked) - pr.prevSumExecRuntime
             delta == pr.vruntime - s1.procList[cl.tree[1].pid].vruntime
         IN  IF cl.nrRunning <= 1 THEN s1
             ELSE IF ExceedsSlice(deltaExec, idealRuntime) THEN Simulator_pickNext(s1)
             ELSE IF deltaExec < cl.schedMinGranularity \/ cl.enqueued < 1 THEN s1
             ELSE IF Len(cl.tree) = 0
             THEN Throw(s1, "the runqueue is empty or has an invalid value stored in it")
             ELSE IF delta < 0 THEN s1
             ELSE IF ExceedsSlice(delta, idealRuntime) THEN Simulator_pickNext(s1)
             ELSE s1)

\* SJFClass.checkPreempt
SJF_checkPreempt(s, c, p) ==
    IF s.schedClassActive[c].earlyPreemption
       /\ s.procList[s.curr].remainingRuntime > s.procList[p].remainingRuntime
    THEN Simulator_pickNext(s)
    ELSE s

\* LinuxO1Class.checkPreempt
O1_checkPreempt(s, c, p) ==
    IF s.procList[s.curr].currBehavior.priority > s.procList[p].currBehavior.priority
    THEN Simulator_pickNext(s)
    ELSE s

\* LinuxO1Class.taskTick
O1_taskTick(s, c) ==
    LET now == s.simulationTime
        p == s.curr
    IN  IF s.procList[p].timeSlice - (now - s.procList[p].updated) <= 0
        THEN Simulator_pickNext([s EXCEPT !.procList[p].timeSlice = 0,
                                          !.procList[p].updated = now])
        ELSE [s EXCEPT !.procList[p].timeSlice = @ - (now - s.procList[p].updated),
                       !.procList[p].updated = now]

\* the taskTick of a class
TaskTickOf(s, c) ==
    IF c = O1Name THEN O1_taskTick(s, c)
    ELSE IF c \in {"RoundClass", TemplateName} THEN Round_taskTick(s, c)
    ELSE IF c = "LinuxFairClass" THEN Fair_taskTick(s, c)
    ELSE s

\* curr.schedClass.taskTick()
\* (history: taskTicks holds the classes whose taskTick the step has called)
Class_taskTick(s) ==
    IF Failed(s) THEN s
    ELSE TaskTickOf([s EXCEPT !.taskTicks = Append(@, PolicyOf(s, s.curr))],
                    PolicyOf(s, s.curr))

\* proc.schedClass.checkPreempt(proc)
Class_checkPreempt(s, p) ==
    IF Failed(s) THEN s
    ELSE IF PolicyOf(s, p) = "LinuxFairClass" THEN Fair_checkPreempt(s, PolicyOf(s, p), p)
    ELSE IF PolicyOf(s, p) = SJFName THEN SJF_checkPreempt(s, PolicyOf(s, p), p)
    ELSE IF PolicyOf(s, p) = O1Name THEN O1_checkPreempt(s, PolicyOf(s, p), p)
    ELSE s

\* the loop of Simulator.checkPreempt over schedClassPrio
RECURSIVE PreemptLoop(_, _, _)
PreemptLoop(s, i, p) ==
    IF Failed(s) \/ i > Len(s.schedClassPrio) THEN s
    ELSE IF s.schedClassPrio[i] = PolicyOf(s, p)
    THEN PreemptLoop(Simulator_pickNext(s), i + 1, p)
    ELSE IF s.schedClassPrio[i] = PolicyOf(s, s.curr) THEN s
    ELSE PreemptLoop(s, i + 1, p)

\* variant: a process of another class never preempts
checkPreemptSameClassOnly(s, p) ==
    IF Failed(s) THEN s
    ELSE IF PolicyOf(s, p) = PolicyOf(s, s.curr) /\ s.preemption
    THEN Class_checkPreempt(s, p)
    ELSE s

Simulator_checkPreempt(s, p) ==
    IF Failed(s) THEN s
    ELSE IF PolicyOf(s, p) = PolicyOf(s, s.curr) /\ s.preemption
    THEN Class_checkPreempt(s, p)
    ELSE PreemptLoop(s, 1, p)

(***************************************************************************)
(* Simulation configurations (simConf).  A process definition has a spawn  *)
(* time, a policy and a behavior list: the first entry gives run, block    *)
(* and priority, the others are behavior updates or a final (exit) entry,  *)
(* each with one condition.  All values are plain numbers.                 *)
(***************************************************************************)
Policies == {"FCFSClass", "RoundClass", "LinuxFairClass"}

Conds == {"procExec", "simExec", "execCnt"}

RunLens == {2, 3}

FirstEntry(run, block) ==
    [final |-> FALSE, endNicely |-> FALSE, procExec |-> 0, simExec |-> 0, execCnt |-> 0,
     run |-> run, block |-> block, hasPriority |-> TRUE, priority |-> 0]

CondEntry(final, nice, cond, thr, run) ==
    [final |-> final, endNicely |-> nice,
     procExec |-> IF cond = "procExec" THEN thr ELSE 0,
     simExec |-> IF cond = "simExec" THEN thr ELSE 0,
     execCnt |-> IF cond = "execCnt" THEN thr ELSE 0,
     run |-> run, block |-> 0, hasPriority |-> FALSE, priority |-> 0]

FinalEntries ==
    {CondEntry(TRUE, nice, cond, thr, 0) :
        nice \in BOOLEAN, cond \in Conds, thr \in 1..MaxThreshold}

UpdateEntries ==
    {CondEntry(FALSE, FALSE, cond, 1, 1) : cond \in Conds}

Tails ==
    {<<>>} \cup {<<f>> : f \in FinalEntries}
           \cup {<<u, f>> : u \in UpdateEntries, f \in {g \in FinalEntries : g.endNicely}}
           \cup {<<u, v>> : u \in UpdateEntries, v \in UpdateEntries}

ProcDef(policy, spawn, run, block, tail) ==
    [policy |-> policy, spawn |-> spawn, behavior |-> <<FirstEntry(run, block)>> \o tail]

\* the process under observation, with every kind of behavior list
SubjectDefs ==
    {ProcDef(policy, spawn, run, 1, tail) :
        policy \in Policies, spawn \in 0..1, run \in RunLens, tail \in Tails}

\* its competitor, which never exits
OtherDefs ==
    {ProcDef(policy, spawn, run, 2, <<>>) :
        policy \in Policies, spawn \in 0..MaxSpawn, run \in RunLens}

\* a process of the user-written class
TemplateDefs ==
    {ProcDef(TemplateName, spawn, run, 1, <<>>) : spawn \in 0..1, run \in RunLens}

ProcLists ==
    {<<d>> : d \in SubjectDefs \cup TemplateDefs}
        \cup {<<d, e>> : d \in SubjectDefs \cup TemplateDefs, e \in OtherDefs}

\* the variants of the classes of a configuration: the faults of the
\* user-written class, when it is active, and the class parameter
\* earlyPreemption of SJFClass
ClassFaults(procs) ==
    IF \E i \in 1..Len(procs) : procs[i].policy = TemplateName THEN Faults
    ELSE IF \E i \in 1..Len(procs) : procs[i].policy = SJFName
    THEN {"none", "earlyPreemption"}
    ELSE {"none"}

\* classParams of the configurations
RoundTimeSlice == 2

FairLatency == 4

FairGranularity == 1

TickLen == 3

ActiveClasses(procs) == {procs[i].policy : i \in 1..Len(procs)}

\* every priority order of the active classes (registration order or classPrio)
PrioOrders(procs) ==
    {o \in UNION {[1..n -> ActiveClasses(procs)] : n \in 1..3} :
        /\ Len(o) = Cardinality(ActiveClasses(procs))
        /\ \A i, j \in 1..Len(o) : i # j => o[i] # o[j]}

\* Process after Simulator.loadProc and the init of its class
NewProcess(def) ==
    [alive |-> FALSE, runnable |-> FALSE, onRq |-> FALSE, waiting |-> FALSE,
     remainingRuntime |-> 0, policy |-> def.policy, spawned |-> def.spawn,
     exited |-> 0 - 1, enqueued |-> def.spawn, picked |-> 0 - 1, updated |-> 0 - 1,
     nextEvent |-> NoEvent, strictEndEvent |-> NoEvent,
     execCnt |-> 0, execTime |-> 0, waitTime |-> 0,
     currBehavior |-> [run |-> def.behavior[1].run, block |-> def.behavior[1].block,
                       priority |-> def.behavior[1].priority],
     nextBehIndex |-> 1, behavior |-> def.behavior, runLog |-> <<>>,
     timeSlice |-> IF def.policy \in {"RoundClass", TemplateName} THEN RoundTimeSlice
                   ELSE IF def.policy = O1Name
                   THEN getTimesliceLen(def.behavior[1].priority)
                   ELSE 0,
     prevRemaining |-> 0 - 1, enqueueNo |-> 0, o1rq |-> "none",
     vruntime |-> 0, enqueueWakeup |-> FALSE, prevSumExecRuntime |-> 0,
     burstRun |-> 0, burstLen |-> 0, exitedFrom |-> "none", firstPick |-> 0 - 1]

\* SchedClass.init and the init of the classes
NewClass(c, fault) ==
    [nrRunning |-> 0, nrWaiting |-> 0, latencySum |-> 0, latencyUpdate |-> 0,
     latencyLogLen |-> 0, runqueue |-> <<>>,
     timeSlice |-> IF c \in {"RoundClass", TemplateName} THEN RoundTimeSlice ELSE 0,
     fault |-> IF c = TemplateName THEN fault ELSE "none",
     earlyPreemption |-> c = SJFName /\ fault = "earlyPreemption",
     rqs |-> [o \in {"x", "y"} |-> NewO1Runqueue], active |-> "x",
     tree |-> <<>>, enqueued |-> 0, enqueues |-> 0, load |-> 0, minVruntime |-> 0, curr |-> NullPid,
     schedLatency |-> FairLatency, schedNrLatency |-> FairLatency \div FairGranularity,
     minGranularity |-> FairGranularity, schedWakeupGranularity |-> FairGranularity,
     schedMinGranularity |-> FairGranularity]

\* (history: idleTime is the time for which the idle process has been current)
NewIdle ==
    [runnable |-> FALSE, alive |-> TRUE, remainingRuntime |-> 0, execCnt |-> 0,
     execTime |-> 0, picked |-> 0 - 1, nextEvent |-> NoEvent, idleTime |-> 0]

\* the simulation queue after Simulator.init: SimStart, the forks in process
\* order, SimStop, the first timer tick; ids in order of creation
RECURSIVE InsertAll(_, _)
InsertAll(q, evts) ==
    IF Len(evts) = 0 THEN q
    ELSE InsertAll(PutBucket(q, Head(evts).time, Bucket(q, Head(evts).time) \o <<Head(evts)>>),
                   Tail(evts))

InitEvents(procs, simLen, tick) ==
    <<[id |-> 1, type |-> "SimStart", time |-> 0, proc |-> NullPid, cond |-> "none",
       nice |-> FALSE]>>
    \o [i \in 1..Len(procs) |->
           [id |-> i + 1, type |-> "Fork", time |-> procs[i].spawn, proc |-> i,
            cond |-> "none", nice |-> FALSE]]
    \o <<[id |-> Len(procs) + 2, type |-> "SimStop", time |-> simLen, proc |-> NullPid,
          cond |-> "none", nice |-> FALSE],
         [id |-> Len(procs) + 3, type |-> "Timer", time |-> tick, proc |-> NullPid,
          cond |-> "none", nice |-> FALSE]>>

(***************************************************************************)
(* State: the private variables of the Simulator namespace.  step records  *)
(* what the last iteration of the main loop did (the event it processed,   *)
(* the pick it made); runState tells whether the run is under way,         *)
(* finished (SimStopEvent consumed) or aborted by an Error (err).          *)
(* schedClassPrioRegistered is the order of the registered classes; the    *)
(* configurations of a run give the order of their classes (classPrio), so *)
(* that the order of the registered ones is followed only where the        *)
(* functions that reorder the classes are called.                          *)
(***************************************************************************)
VARIABLES simulationTime, simulationQueue, nextEventId, procList, idle, curr,
          schedClassActive, schedClassPrio, calledPutPrev, contextSwitches,
          liveProcessCount, simulationLen, timerTickLen, preemption,
          runState, err, step, schedClassPrioRegistered

\* the built-in classes of the model in the order in which index.html
\* registers them
RegisteredClasses == <<"FCFSClass", "RoundClass", "LinuxFairClass">>

vars == <<simulationTime, simulationQueue, nextEventId, procList, idle, curr,
          schedClassActive, schedClassPrio, calledPutPrev, contextSwitches,
          liveProcessCount, simulationLen, timerTickLen, preemption,
          runState, err, step, schedClassPrioRegistered>>

NoAnswer == [ret |-> NullPid, nrPutPrev |-> 0]

NoPick == [time |-> 0 - 1, proc |-> NullPid, prev |-> NullPid, returned |-> FALSE,
           nrPutPrev |-> 0]

\* the engine state as one record, with the locals of one loop iteration
State(evt) ==
    [simulationTime |-> simulationTime, simulationQueue |-> simulationQueue,
     nextEventId |-> nextEventId, procList |-> procList, idle |-> idle, curr |-> curr,
     schedClassActive |-> schedClassActive, schedClassPrio |-> schedClassPrio,
     calledPutPrev |-> calledPutPrev, contextSwitches |-> contextSwitches,
     liveProcessCount |-> liveProcessCount, simulationLen |-> simulationLen,
     timerTickLen |-> timerTickLen, preemption |-> preemption, err |-> err,
     ret |-> NullPid, endEventSet |-> FALSE, nrPutPrev |-> 0, nrPicks |-> 0, pickCalls |-> 0,
     lastPick |-> NoPick, preempted |-> {}, wrongDelete |-> FALSE, sharedDelete |-> FALSE,
     answer |-> NoAnswer,
     inserted |-> {}, endNow |-> {}, sjfPicks |-> {}, o1Picks |-> {},
     o1Expiries |-> {}, taskTicks |-> <<>>]

Commit(r, evt, finished) ==
    /\ simulationTime' = r.simulationTime
    /\ simulationQueue' = r.simulationQueue
    /\ nextEventId' = r.nextEventId
    /\ procList' = r.procList
    /\ idle' = [r.idle EXCEPT !.idleTime =
                    @ + (IF curr = IdlePid THEN r.simulationTime - simulationTime ELSE 0)]
    /\ curr' = r.curr
    /\ schedClassActive' = r.schedClassActive
    /\ schedClassPrio' = r.schedClassPrio
    /\ calledPutPrev' = r.calledPutPrev
    /\ contextSwitches' = r.contextSwitches
    /\ liveProcessCount' = r.liveProcessCount
    /\ simulationLen' = r.simulationLen
    /\ timerTickLen' = r.timerTickLen
    /\ preemption' = r.preemption
    /\ err' = r.err
    /\ runState' = IF r.err # "" THEN "aborted"
                   ELSE IF finished THEN "finished" ELSE "running"
    /\ UNCHANGED schedClassPrioRegistered
    /\ step' = [evt |-> evt, currBefore |-> curr, pickCalls |-> r.pickCalls,
                nrPicks |-> r.nrPicks, lastPick |-> r.lastPick, nrPutPrev |-> r.nrPutPrev,
                preempted |-> r.preempted, wrongDelete |-> r.wrongDelete,
                sharedDelete |-> r.sharedDelete,
                answer |-> r.answer, inserted |-> r.inserted, endNow |-> r.endNow,
                sjfPicks |-> r.sjfPicks, o1Picks |-> r.o1Picks, o1Expiries |-> r.o1Expiries,
                taskTicks |-> r.taskTicks]

\* getNextEvent and the checks at the head of the loop body of Simulator.run:
\* the state in which the handler of the event runs
Fetch(evt) ==
    LET s0 == State(evt)
        s1 == [s0 EXCEPT !.simulationQueue = Tail(@)]
    IN  IF evt.time > simulationLen
        THEN Throw(s1, "current simulation time exceeded simulation length")
        ELSE IF evt.time < simulationTime
        THEN Throw(s1, "event time is lower than current simulation time")
        ELSE [s1 EXCEPT !.simulationTime = evt.time]

Running == runState = "running" /\ Len(simulationQueue) > 0

NextEventIs(type) == Running /\ simulationQueue[1].type = type

\* the Fork / Enqueue branch of Simulator.run
WakeUp(s, evt) ==
    LET p == evt.proc
        c == PolicyOf(s, p)
        s1 == [FlushLatency([s EXCEPT !.procList[p].alive = IF evt.type = "Fork" THEN TRUE ELSE @,
                                      !.procList[p].runnable = TRUE,
                                      !.procList[p].waiting = TRUE,
                                      !.procList[p].enqueued = s.simulationTime], c)
                  EXCEPT !.schedClassActive[c].nrWaiting = @ + 1,
                         !.schedClassActive[c].nrRunning = @ + 1]
    IN  IF Failed(s) THEN s
        ELSE Simulator_checkPreempt(Class_enqueue(s1, p), p)

SimStart ==
    /\ NextEventIs("SimStart")
    /\ LET evt == simulationQueue[1]
       IN  Commit(Simulator_pickNext(Fetch(evt)), evt, FALSE)

Fork ==
    /\ NextEventIs("Fork")
    /\ LET evt == simulationQueue[1]
       IN  Commit(WakeUp(Fetch(evt), evt), evt, FALSE)

Enqueue ==
    /\ NextEventIs("Enqueue")
    /\ LET evt == simulationQueue[1]
       IN  Commit(WakeUp(Fetch(evt), evt), evt, FALSE)

Block ==
    /\ NextEventIs("Block")
    /\ LET evt == simulationQueue[1]
       IN  Commit(Simulator_pickNext(handleBlock(Fetch(evt), evt)), evt, FALSE)

\* variant of TimerTick that sets the next timer tick one time unit late
TimerTickLate(s) ==
    IF Failed(s) \/ ~s.preemption THEN s
    ELSE Then(Class_taskTick(s), LAMBDA s2 :
              insertEvent(s2, NewEvent(s2, "Timer", s2.simulationTime + s2.timerTickLen + 1,
                                       NullPid, "none", FALSE)))

\* the TimerEvent branch of Simulator.run
TimerTick(s) ==
    IF Failed(s) \/ ~s.preemption THEN s
    ELSE Then(Class_taskTick(s), LAMBDA s2 :
              insertEvent(s2, NewEvent(s2, "Timer", s2.simulationTime + s2.timerTickLen,
                                       NullPid, "none", FALSE)))

Timer ==
    /\ NextEventIs("Timer")
    /\ LET evt == simulationQueue[1]
       IN  Commit(TimerTick(Fetch(evt)), evt, FALSE)

\* the ExitEvent branch of Simulator.run
ExitRun(s, evt) ==
    Then(handleExit(s, evt), LAMBDA s1 :
         IF evt.proc = s1.curr THEN Simulator_pickNext(s1) ELSE s1)

Exit ==
    /\ NextEventIs("Exit")
    /\ LET evt == simulationQueue[1]
       IN  Commit(ExitRun(Fetch(evt), evt), evt, FALSE)

\* the SimStopEvent ends the loop: the final bookkeeping of Simulator.run
Finalise(s) ==
    LET now == s.simulationTime
        s1 == IF s.curr = IdlePid
              THEN [s EXCEPT !.idle.picked = now,
                             !.idle.execTime = @ + (now - s.idle.picked)]
              ELSE [s EXCEPT !.procList[s.curr] = AccountRun(@, now)]
    IN  [s1 EXCEPT !.procList =
            [p \in DOMAIN s1.procList |->
                IF s1.procList[p].waiting
                THEN [s1.procList[p] EXCEPT !.waitTime = @ + (now - s1.procList[p].enqueued)]
                ELSE s1.procList[p]]]

SimStop ==
    /\ NextEventIs("SimStop")
    /\ LET evt == simulationQueue[1]
           s0 == State(evt)
           s1 == [s0 EXCEPT !.simulationQueue = Tail(@), !.simulationTime = evt.time]
       IN  Commit(Finalise(s1), evt, TRUE)

\* the engine after Simulator.init of one of the configurations, with the
\* public switch Simulator.preemption as given, when Simulator.run enters
\* its loop
InitOf(procLists, switch) ==
    \E procs \in procLists : \E prio \in PrioOrders(procs) : \E fault \in ClassFaults(procs) :
        /\ simulationTime = 0
        /\ simulationLen = MaxSimLen
        /\ timerTickLen = TickLen
        /\ preemption = switch
        /\ simulationQueue = InsertAll(<<>>, InitEvents(procs, MaxSimLen, TickLen))
        /\ nextEventId = Len(procs) + 4
        /\ procList = [i \in 1..Len(procs) |-> NewProcess(procs[i])]
        /\ idle = NewIdle
        /\ curr = IdlePid
        /\ schedClassActive = [c \in ActiveClasses(procs) |-> NewClass(c, fault)]
        /\ schedClassPrio = prio
        /\ calledPutPrev = FALSE
        /\ contextSwitches = 0
        /\ liveProcessCount = Len(procs)
        /\ runState = "running"
        /\ err = ""
        /\ schedClassPrioRegistered = RegisteredClasses
        /\ step = [evt |-> NoEvent, currBefore |-> IdlePid, pickCalls |-> 0,
                   nrPicks |-> 0, lastPick |-> NoPick, nrPutPrev |-> 0,
                   preempted |-> {}, wrongDelete |-> FALSE, sharedDelete |-> FALSE,
                   answer |-> NoAnswer,
                   inserted |-> {}, endNow |-> {}, sjfPicks |-> {}, o1Picks |-> {},
                   o1Expiries |-> {}, taskTicks |-> <<>>]

Init == InitOf(ProcLists, TRUE)

Next ==
    \/ SimStart
    \/ Fork
    \/ Enqueue
    \/ Block
    \/ Timer
    \/ Exit
    \/ SimStop

Spec == Init /\ [][Next]_vars

(***************************************************************************)
(* Properties.  An event-loop boundary is a state between two iterations   *)
(* of the main loop, or the state in which run() returns: a thrown Error   *)
(* leaves the loop in the middle of an iteration.                          *)
(***************************************************************************)
Pids == DOMAIN procList

AtBoundary == runState # "aborted"

CurrPolicy(p) == IF p = IdlePid THEN IdleClassName ELSE procList[p].policy

\* position of a class in schedClassPrio (1 is the highest priority); the idle
\* class comes after every active class
ClassRank(c) ==
    IF c = IdleClassName THEN Len(schedClassPrio) + 1
    ELSE CHOOSE i \in 1..Len(schedClassPrio) : schedClassPrio[i] = c

\* the last loop iteration made a process of a higher class runnable
HigherClassWokeUp ==
    /\ step.evt.type \in {"Fork", "Enqueue"}
    /\ ClassRank(CurrPolicy(step.evt.proc)) < ClassRank(CurrPolicy(step.currBefore))

\* C1: at every event-loop boundary no class above the class of the current
\* process (every class, when idle runs) has a runnable process that is not
\* current; and a Fork/Enqueue of a process of a higher class than the current
\* one is followed, at that same simulation time, by a pick of a process of
\* that higher class.
C1_ClassHierarchy ==
    AtBoundary =>
        /\ \A p \in Pids :
               procList[p].runnable /\ p # curr
                   => ClassRank(procList[p].policy) >= ClassRank(CurrPolicy(curr))
        /\ HigherClassWokeUp =>
               /\ step.nrPicks >= 1
               /\ step.lastPick.time = step.evt.time
               /\ step.lastPick.time = simulationTime
               /\ CurrPolicy(step.lastPick.proc) = CurrPolicy(step.evt.proc)
               /\ curr = step.lastPick.proc

\* a process of a higher class woke up while a process of a lower class was
\* running, and took the processor
C1_Witness ==
    /\ AtBoundary
    /\ HigherClassWokeUp
    /\ step.currBefore # IdlePid
    /\ procList[step.currBefore].runnable
    /\ curr = step.evt.proc

(***************************************************************************)
(* C2, C3: the run completes; having nothing to run is not an error.       *)
(***************************************************************************)
\* the classes of the configuration are FCFSClass, RoundClass, LinuxFairClass
BuiltInOnly == TemplateName \notin DOMAIN schedClassActive

\* C2: the run of every configuration of built-in classes completes by consuming the SimStop
\* event: no fatal error is raised, the event queue is never empty while the
\* loop runs, no event later than simulationLen is processed, and the loop
\* ends on the SimStop event only.
C2_RunCompletes ==
    /\ BuiltInOnly => err = ""
    /\ runState = "running" => Len(simulationQueue) > 0
    /\ step.evt.time <= simulationLen
    /\ runState = "finished" => step.evt.type = "SimStop"

NoneRunnable == \A p \in Pids : ~procList[p].runnable

\* C3: whenever Simulator.pickNext has run, with built-in classes, in a step
\* that leaves no process of any class runnable, no class returned a process, no error was raised
\* and the idle process is current.
C3_IdleWhenNoneRunnable ==
    (BuiltInOnly /\ step.pickCalls >= 1 /\ NoneRunnable)
        => /\ err = ""
           /\ curr = IdlePid
           /\ ~step.lastPick.returned

(***************************************************************************)
(* C4: the strict exit of a non-nice simExec entry.                        *)
(***************************************************************************)
LastEntry(p) == procList[p].behavior[Len(procList[p].behavior)]

\* the process has been picked with a final non-nice simExec entry next
StrictSimExec(p) ==
    /\ procList[p].firstPick >= 0
    /\ Len(procList[p].behavior) = 2
    /\ LastEntry(p).final /\ LastEntry(p).simExec # 0 /\ ~LastEntry(p).endNicely

StrictDeadline(p) == Max(procList[p].firstPick, LastEntry(p).simExec)

\* C4: a process picked at t0 with a final non-nice simExec = T entry next
\* exits at exactly max(t0, T) when that is before simulationLen: it is alive
\* up to that time and not beyond, exited holds that time, whatever it was
\* doing then, and no error is raised.
C4_StrictSimExecExit ==
    \A p \in Pids :
        (StrictSimExec(p) /\ StrictDeadline(p) < simulationLen)
            => /\ err = ""
               /\ procList[p].alive => simulationTime <= StrictDeadline(p)
               /\ ~procList[p].alive => procList[p].exited = StrictDeadline(p)
               /\ runState = "finished" => ~procList[p].alive

(***************************************************************************)
(* C5: the strict exit of a non-nice procExec entry.                       *)
(***************************************************************************)
\* the behavior list of the process is [first entry, final non-nice procExec]
StrictProcExec(p) ==
    /\ Len(procList[p].behavior) = 2
    /\ LastEntry(p).final /\ LastEntry(p).procExec # 0 /\ ~LastEntry(p).endNicely

\* the execution time of the process up to now, its running burst included
ExecTimeNow(p) ==
    procList[p].execTime
        + (IF curr = p /\ runState # "finished" THEN simulationTime - procList[p].picked
           ELSE 0)

\* C5: a process with the behavior list [first, final procExec = X, not nice]
\* never executes for longer than X, has executed for exactly X when it has
\* exited, and when its execution time reaches X while it is alive, its exit
\* is the pending event of this very instant and no error has been raised.
C5_StrictProcExecExit ==
    \A p \in Pids :
        StrictProcExec(p)
            => /\ ExecTimeNow(p) <= LastEntry(p).procExec
               /\ ~procList[p].alive /\ procList[p].firstPick >= 0
                      => procList[p].execTime = LastEntry(p).procExec
               /\ procList[p].alive /\ ExecTimeNow(p) = LastEntry(p).procExec
                      => /\ err = ""
                         /\ runState = "running"
                                => /\ procList[p].nextEvent.type = "Exit"
                                   /\ procList[p].nextEvent.time = simulationTime

(***************************************************************************)
(* C6: nice exits wait for the end of the burst.                           *)
(***************************************************************************)
NiceFinal(p) == LastEntry(p).final /\ LastEntry(p).endNicely

\* the Exit events of the process p that are in the event queue
PendingExits(p) ==
    {i \in 1..Len(simulationQueue) :
        simulationQueue[i].type = "Exit" /\ simulationQueue[i].proc = p}

\* C6: at every event-loop boundary, a process whose final entry is nice has
\* exited only while running and with its burst fully consumed; an Exit event
\* is pending for it only while it is the current process, and then at the end
\* of its burst; a process preempted before the end of its burst and not
\* picked again at once has no pending Exit event and waits on the runqueue.
C6_NiceExitAtBurstEnd ==
    AtBoundary =>
        \A p \in Pids :
            NiceFinal(p)
                => /\ ~procList[p].alive /\ procList[p].firstPick >= 0
                          => /\ procList[p].exitedFrom = "running"
                             /\ procList[p].burstRun = procList[p].burstLen
                   /\ \A i \in PendingExits(p) :
                          runState = "running" =>
                          /\ curr = p
                          /\ simulationQueue[i].time
                                 = procList[p].picked + procList[p].remainingRuntime
                          /\ simulationQueue[i].time
                                 = simulationTime + (procList[p].burstLen - procList[p].burstRun
                                                     - (simulationTime - procList[p].picked))
                   /\ p \in step.preempted /\ curr # p
                          => /\ PendingExits(p) = {}
                             /\ procList[p].runnable /\ procList[p].waiting
                             /\ procList[p].onRq
                             /\ procList[p].remainingRuntime > 0

\* a nice exit has happened at the end of a burst that a preemption had
\* interrupted: the last piece of the burst is shorter than the burst
C6_Witness ==
    /\ AtBoundary
    /\ \E p \in Pids :
           /\ NiceFinal(p) /\ ~procList[p].alive /\ procList[p].exitedFrom = "running"
           /\ procList[p].burstLen = procList[p].burstRun
           /\ procList[p].runLog[Len(procList[p].runLog)] < procList[p].burstLen

(***************************************************************************)
(* C7: the exit of a non-nice execCnt entry.                               *)
(***************************************************************************)
StrictExecCnt(p) ==
    LastEntry(p).final /\ LastEntry(p).execCnt # 0 /\ ~LastEntry(p).endNicely

\* C7: a process whose final entry is execCnt = N, not nice, is never picked
\* more than N times.
C7_ExecCntBounded ==
    \A p \in Pids :
        StrictExecCnt(p) => procList[p].execCnt <= LastEntry(p).execCnt

(***************************************************************************)
(* C8: behavior switches.                                                  *)
(***************************************************************************)
\* C8: in every step, the nextBehIndex of a process either stays as it is or
\* grows by exactly one, and it grows only for the process picked by
\* Simulator.pickNext in that step, only onto an entry of the behavior list
\* and only over an entry that is not final.
C8_SequentialSwitch ==
    [][\A p \in Pids :
           \/ procList'[p].nextBehIndex = procList[p].nextBehIndex
           \/ /\ procList'[p].nextBehIndex = procList[p].nextBehIndex + 1
              /\ step'.nrPicks >= 1
              /\ step'.lastPick.proc = p
              /\ procList[p].nextBehIndex < Len(procList[p].behavior)
              /\ ~procList[p].behavior[procList[p].nextBehIndex + 1].final]_vars

\* the current process has been picked again while its next entry is final:
\* its second entry has been switched to, the third, final one, has not
C8_Witness ==
    /\ curr # IdlePid
    /\ step.nrPicks >= 1 /\ step.lastPick.proc = curr
    /\ Len(procList[curr].behavior) = 3
    /\ procList[curr].nextBehIndex = 2
    /\ procList[curr].behavior[3].final
    /\ CondMet(procList[curr].behavior[3], procList[curr], simulationTime)
    /\ procList[curr].execCnt >= 3

(***************************************************************************)
(* C9: the putPrev protocol.                                               *)
(***************************************************************************)
\* C9: a dispatch cycle of Simulator.pickNext that runs to its end has seen
\* putPrev called once if a class returned a process and not at all if none
\* did; a class that answers with a process without having called putPrev,
\* or with null having called putPrev, makes the kernel raise its fatal
\* error; and only a class that departs from the rule does so.
C9_PutPrevProtocol ==
    step.pickCalls >= 1 =>
        /\ err = "" => /\ step.lastPick.returned <=> step.nrPutPrev = 1
                       /\ step.nrPutPrev <= 1
        /\ step.answer.ret # NullPid /\ step.answer.nrPutPrev = 0 => err = NoPutPrevError
        /\ step.answer.ret = NullPid /\ step.answer.nrPutPrev >= 1 => err = NullPutPrevError
        /\ err \in {NoPutPrevError, NullPutPrevError}
               => \E c \in DOMAIN schedClassActive : schedClassActive[c].fault # "none"

\* a class has returned a process without calling putPrev after a class that
\* precedes it had correctly returned null: the kernel has raised the error
C9_Witness ==
    /\ err = NoPutPrevError
    /\ step.answer.ret # NullPid /\ step.answer.nrPutPrev = 0
    /\ Len(schedClassPrio) = 2
    /\ schedClassActive[schedClassPrio[2]].fault = "noPutPrev"

(***************************************************************************)
(* C10: a process that is not alive.                                       *)
(***************************************************************************)
\* C10: at every event-loop boundary a process that is not alive, not yet
\* forked or exited, is not runnable, not on a runqueue and not waiting.
C10_DeadIsIdle ==
    AtBoundary =>
        \A p \in Pids :
            ~procList[p].alive
                => /\ ~procList[p].runnable
                   /\ ~procList[p].onRq
                   /\ ~procList[p].waiting

\* a process has just exited while it was waiting on the runqueue of its class
C10_Witness ==
    /\ AtBoundary
    /\ step.evt.type = "Exit"
    /\ \E p \in Pids :
           /\ step.evt.proc = p
           /\ ~procList[p].alive /\ procList[p].exitedFrom = "waiting"
           /\ ~procList[p].runnable /\ ~procList[p].onRq /\ ~procList[p].waiting

(***************************************************************************)
(* C11: where an alive process is.                                         *)
(***************************************************************************)
\* the number of times the process is stored in a runqueue (array or tree)
TimesStored(p) ==
    LET cl == schedClassActive[procList[p].policy]
    IN  Cardinality({i \in 1..Len(cl.runqueue) : cl.runqueue[i] = p})
            + Cardinality({i \in 1..Len(cl.tree) : cl.tree[i].pid = p})

PendingEnqueues(p) ==
    {i \in 1..Len(simulationQueue) :
        simulationQueue[i].type = "Enqueue" /\ simulationQueue[i].proc = p}

BlockedPending(p) == ~procList[p].runnable /\ PendingEnqueues(p) # {}

Places(p) ==
    (IF TimesStored(p) > 0 THEN 1 ELSE 0) + (IF curr = p THEN 1 ELSE 0)
        + (IF BlockedPending(p) THEN 1 ELSE 0)

RunnableOf(c) ==
    {p \in Pids : procList[p].policy = c /\ procList[p].alive /\ procList[p].runnable}

CurrIn(c) == IF CurrPolicy(curr) = c THEN 1 ELSE 0

\* C12: at every event-loop boundary, for every active class, nrRunning is
\* the number of its alive and runnable processes and nrWaiting is nrRunning
\* less one if the current process is of that class.
C12_ClassCounters ==
    AtBoundary =>
        \A c \in DOMAIN schedClassActive :
            /\ schedClassActive[c].nrRunning = Cardinality(RunnableOf(c))
            /\ schedClassActive[c].nrWaiting = schedClassActive[c].nrRunning - CurrIn(c)

(***************************************************************************)
(* C13: conservation of time.                                              *)
(***************************************************************************)
RECURSIVE SumExecTime(_)
SumExecTime(n) == IF n = 0 THEN 0 ELSE procList[n].execTime + SumExecTime(n - 1)

\* C13: when the run has finished, the execution times of the processes and
\* the time for which the idle process was current add up to simulationLen.
C13_TimeConserved ==
    runState = "finished"
        => SumExecTime(Len(procList)) + idle.idleTime = simulationLen

C13_Witness ==
    /\ runState = "finished"
    /\ idle.idleTime > 0
    /\ contextSwitches >= 4
    /\ \E p, q \in Pids :
          /\ ~procList[p].alive /\ procList[p].execTime > 0
          /\ procList[q].alive /\ procList[q].execTime > 0 /\ Len(procList[q].runLog) >= 2

(***************************************************************************)
(* C14, C15: the virtual time of LinuxFairClass.                           *)
(***************************************************************************)
FairName == "LinuxFairClass"

FairActive == FairName \in DOMAIN schedClassActive

\* C14: no step of the engine, whatever operations of the fair policy it
\* runs, decreases the minVruntime of LinuxFairClass.
C14_MinVruntimeMonotonic ==
    [][FairActive =>
          schedClassActive'[FairName].minVruntime >= schedClassActive[FairName].minVruntime]_vars

C14_Witness ==
    /\ FairActive /\ AtBoundary
    /\ schedClassActive[FairName].minVruntime >= 2
    /\ \E p \in Pids : /\ procList[p].policy = FairName
                       /\ procList[p].onRq
                       /\ procList[p].vruntime < schedClassActive[FairName].minVruntime

\* C15: every process that LinuxFairClass inserts into its tree has, at the
\* insertion, a vruntime of at least minVruntime - schedLatency / 2.
C15_GentleSleepersBound ==
    \A i \in step.inserted :
        2 * i.vruntime >= 2 * i.minVruntime - schedClassActive[FairName].schedLatency

(***************************************************************************)
(* C16: the event queue on its own.  QueueSpec applies insertEvent,        *)
(* getNextEvent, getEvent / deleteEvent and the re-insertion of a moved    *)
(* event (handlePreempt) to queues of up to MaxQEvents events at the times *)
(* 0..MaxQTime.  step holds the history: the ids of the queued events in   *)
(* the order of their insertion, and the event returned last.              *)
(***************************************************************************)
MaxQTime == 3

MaxQEvents == 5

\* getNextEvent: the leftmost node is taken out of the tree, its first event
\* is returned (s.got) and the others are put back
getNextEvent(s) ==
    IF Failed(s) THEN s
    ELSE IF Len(s.simulationQueue) = 0
    THEN Throw(s, "the simulation queue is empty or has an invalid value stored in it")
    ELSE LET t == s.simulationQueue[1].time
             holder == Bucket(s.simulationQueue, t)
             rest == WithoutBucket(s.simulationQueue, t)
         IN  [s EXCEPT !.simulationQueue = PutBucket(rest, t, Tail(holder)),
                       !.got = holder[1]]

QState == [State(NoEvent) EXCEPT !.ret = NullPid] @@ [got |-> NoEvent]

WithoutId(seq, id) == SelectSeq(seq, LAMBDA x : x # id)

QCommit(r, order, got) ==
    /\ simulationTime' = r.simulationTime
    /\ simulationQueue' = r.simulationQueue
    /\ nextEventId' = r.nextEventId
    /\ err' = r.err
    /\ step' = [order |-> order, got |-> got]
    /\ UNCHANGED <<procList, idle, curr, schedClassActive, schedClassPrio, calledPutPrev,
                   contextSwitches, liveProcessCount, simulationLen, timerTickLen,
                   preemption, runState, schedClassPrioRegistered>>

QIdle == runState = "queue" /\ err = ""

QInsert ==
    /\ QIdle /\ nextEventId <= MaxQEvents
    /\ \E t \in 0..MaxQTime :
          LET evt == NewEvent(QState, "Timer", t, NullPid, "none", FALSE)
              r == insertEvent(QState, evt)
          IN  QCommit(r, IF Failed(r) THEN step.order ELSE Append(step.order, evt.id),
                      step.got)

\* the loop head of Simulator.run: the clock moves to the time of the event
QGetNext ==
    /\ QIdle /\ Len(simulationQueue) > 0
    /\ LET r == getNextEvent(QState)
       IN  QCommit([r EXCEPT !.simulationTime = r.got.time],
                   WithoutId(step.order, r.got.id), r.got)

QDelete ==
    /\ QIdle
    /\ \E i \in 1..Len(simulationQueue) :
          LET evt == simulationQueue[i]
          IN  QCommit(deleteEvent(QState, evt), WithoutId(step.order, evt.id), step.got)

\* handlePreempt moving an Exit event to the current time
QMove ==
    /\ QIdle
    /\ \E i \in 1..Len(simulationQueue) :
          LET evt == simulationQueue[i]
              moved == [evt EXCEPT !.time = simulationTime]
          IN  QCommit(insertEvent(deleteEvent(QState, evt), moved),
                      Append(WithoutId(step.order, evt.id), evt.id), step.got)

QInit ==
    /\ simulationTime = 0
    /\ simulationLen = MaxQTime
    /\ timerTickLen = TickLen
    /\ preemption = TRUE
    /\ simulationQueue = <<>>
    /\ nextEventId = 1
    /\ procList = <<>>
    /\ idle = NewIdle
    /\ curr = IdlePid
    /\ schedClassActive = <<>>
    /\ schedClassPrio = <<>>
    /\ calledPutPrev = FALSE
    /\ contextSwitches = 0
    /\ liveProcessCount = 0
    /\ runState = "queue"
    /\ err = ""
    /\ schedClassPrioRegistered = RegisteredClasses
    /\ step = [order |-> <<>>, got |-> NoEvent]

QNext ==
    \/ QInsert
    \/ QGetNext
    \/ QDelete
    \/ QMove

QueueSpec == QInit /\ [][QNext]_vars

\* position of an event in the order of insertion
InsertedAt(id) == CHOOSE i \in 1..Len(step.order) : step.order[i] = id

\* the events come out of the queue from its head: they are delivered by time,
\* and the events of one time in the order of their insertion
QueueInOrder ==
    \A i, j \in 1..Len(simulationQueue) :
        i < j => \/ simulationQueue[i].time < simulationQueue[j].time
                 \/ /\ simulationQueue[i].time = simulationQueue[j].time
                    /\ InsertedAt(simulationQueue[i].id) < InsertedAt(simulationQueue[j].id)

\* C16: getNextEvent returns the events in non-decreasing order of time, the
\* events of one time in the order of their insertion, and removing an event
\* with getEvent / deleteEvent keeps the order of the others.
C16_DeliveryOrder ==
    /\ [][step'.got.time >= step.got.time]_vars
    /\ [](/\ QueueInOrder
          /\ \A i \in 1..Len(simulationQueue) : simulationQueue[i].time >= step.got.time
          /\ Len(step.order) = Len(simulationQueue))

C16_Witness ==
    /\ err = "" /\ Len(simulationQueue) >= 2
    /\ simulationQueue[1].time = simulationQueue[2].time
    /\ simulationQueue[1].id > simulationQueue[2].id
    /\ step.got.time = simulationQueue[1].time
    /\ Len(step.order) < nextEventId - 2

(***************************************************************************)
(* C17: preemption at the time of the end event of the current process.    *)
(***************************************************************************)
EndEventsNow(p) ==
    {i \in 1..Len(simulationQueue) :
        /\ simulationQueue[i].proc = p
        /\ simulationQueue[i].type \in {"Block", "Exit"}
        /\ simulationQueue[i].time = simulationTime}

\* the errors that handlePreempt throws at an end event
PreemptErrors ==
    {"next event of preempted process at current time, but remainingRuntime > 0",
     "remainingRuntime == 0 for preempted process, but its next event is later",
     "proc.nextEvent is not an end event (block or exit)"}

\* C17: when pickNext preempts the runnable current process at the very time
\* of its pending Block or Exit event, the step raises no error, the process
\* has blocked or exited, its event is out of the queue and the process is
\* not stored in a runqueue.
C17_EndEventInline ==
    \A p \in step.endNow :
        /\ err \notin PreemptErrors
        /\ err = "" => /\ ~(procList[p].alive /\ procList[p].runnable)
                       /\ EndEventsNow(p) = {}
                       /\ TimesStored(p) = 0

(***************************************************************************)
(* C18, C19, C20: the calls of the public interface.  ApiSpec starts from  *)
(* the engine as constructed and takes one step per call of Simulator.init,*)
(* run, runTo, step and break; a call of run, runTo or step runs the main  *)
(* loop of Simulator.run to its return or to a thrown Error.  runState     *)
(* stands for the flags simInitDone and simRunning.  step holds the        *)
(* history of the last call: its name and argument, the clock and          *)
(* simRunning before it, the times of the events it processed, whether it  *)
(* set the clock to an earlier time, and what it returned.                 *)
(***************************************************************************)
ApiSimLen == 7

MaxSteps == 2

simRunning(s) == s.runState \in {"running", "aborted"}

simInitDone(s) == s.runState \in {"ready", "unloaded", "running", "aborted"}

\* Simulator.loaded: processesLoaded is false between the start of a loadProc
\* that threw and the next loadProc that completes
loaded(s) == s.runState # "unloaded"

\* the configurations passed to Simulator.init
ApiDefs ==
    {ProcDef(policy, spawn, run, 1, <<>>) :
        policy \in Policies, spawn \in 0..1, run \in RunLens}

\* processes with a strict exit: at the second execution, or at time 3
StrictDefs ==
    {ProcDef(policy, 0, 3, 1, <<CondEntry(TRUE, FALSE, "execCnt", 2, 0)>>) :
        policy \in {"RoundClass", "LinuxFairClass"}}
        \cup {ProcDef("RoundClass", 1, 3, 1, <<CondEntry(TRUE, FALSE, "simExec", 3, 0)>>)}

ApiProcLists ==
    {<<d>> : d \in ApiDefs \cup StrictDefs}
        \cup {<<d, ProcDef(policy, 1, 2, 2, <<>>)>> :
                 d \in {e \in ApiDefs : e.spawn = 0 /\ e.behavior[1].run = 3}, policy \in Policies}

SimConfs ==
    UNION {{[procs |-> procs, prio |-> prio] : prio \in PrioOrders(procs)} :
              procs \in ApiProcLists}

\* a variant of Simulator.init that keeps the count of context switches
Simulator_initKeepCount(s, simConf) ==
    IF simRunning(s)
    THEN Throw(s, "a simulation is already underway")
    ELSE [s EXCEPT !.simulationTime = 0,
                   !.simulationQueue =
                       InsertAll(<<>>, InitEvents(simConf.procs, ApiSimLen, TickLen)),
                   !.nextEventId = Len(simConf.procs) + 4,
                   !.simulationLen = ApiSimLen,
                   !.timerTickLen = TickLen,
                   !.procList = [i \in 1..Len(simConf.procs) |-> NewProcess(simConf.procs[i])],
                   !.idle = NewIdle,
                   !.schedClassActive =
                       [c \in ActiveClasses(simConf.procs) |-> NewClass(c, "none")],
                   !.schedClassPrio = simConf.prio,
                   !.liveProcessCount = Len(simConf.procs),
                   !.curr = IdlePid,
                   !.runState = "ready"]

\* Simulator.init
Simulator_init(s, simConf) ==
    IF simRunning(s)
    THEN Throw(s, "a simulation is already underway")
    ELSE [s EXCEPT !.simulationTime = 0,
                   !.simulationQueue =
                       InsertAll(<<>>, InitEvents(simConf.procs, ApiSimLen, TickLen)),
                   !.nextEventId = Len(simConf.procs) + 4,
                   !.simulationLen = ApiSimLen,
                   !.timerTickLen = TickLen,
                   !.procList = [i \in 1..Len(simConf.procs) |-> NewProcess(simConf.procs[i])],
                   !.idle = NewIdle,
                   !.schedClassActive =
                       [c \in ActiveClasses(simConf.procs) |-> NewClass(c, "none")],
                   !.schedClassPrio = simConf.prio,
                   !.contextSwitches = 0,
                   !.liveProcessCount = Len(simConf.procs),
                   !.curr = IdlePid,
                   !.runState = "ready"]

\* the configurations that Simulator.init rejects: an empty process list, or
\* one FCFS process with an invalid behaviour entry or with a classParams
\* that is not an object
InitFaults == {"behavior", "classParams"}

RejectedDef == ProcDef("FCFSClass", 0, 2, 1, <<>>)

RejectedConfs ==
    {[procs |-> <<>>, prio |-> <<>>, fault |-> "processes"]}
        \cup {[procs |-> <<RejectedDef>>, prio |-> <<"FCFSClass">>, fault |-> f] :
                 f \in InitFaults}

\* the simulation queue when Simulator.loadProc has returned: SimStart and
\* the forks
LoadedEvents(procs) == SubSeq(InitEvents(procs, ApiSimLen, TickLen), 1, Len(procs) + 1)

\* Simulator.init of a configuration that it rejects: the statements up to
\* the throw have taken effect. loadProc clears the process list and the
\* class lists before it checks anything; the check of classParams throws
\* when loadProc has completed and the idle process is set up, before the
\* init of any class, whose objects are the registered ones, in the state
\* they were left in.
Simulator_initRejected(s, simConf) ==
    IF simRunning(s)
    THEN Throw(s, "a simulation is already underway")
    ELSE IF simConf.fault \in {"processes", "behavior"}
    THEN [s EXCEPT !.simulationTime = 0,
                   !.simulationQueue = InsertAll(<<>>, LoadedEvents(<<>>)),
                   !.nextEventId = 2,
                   !.simulationLen = ApiSimLen,
                   !.timerTickLen = TickLen,
                   !.procList = <<>>,
                   !.schedClassActive = <<>>,
                   !.schedClassPrio = <<>>,
                   !.runState = IF @ = "ready" THEN "unloaded" ELSE @,
                   !.err = "missing or invalid process list or behavior list"]
    ELSE [s EXCEPT !.simulationTime = 0,
                   !.simulationQueue = InsertAll(<<>>, LoadedEvents(simConf.procs)),
                   !.nextEventId = Len(simConf.procs) + 2,
                   !.simulationLen = ApiSimLen,
                   !.timerTickLen = TickLen,
                   !.procList = [i \in 1..Len(simConf.procs) |-> NewProcess(simConf.procs[i])],
                   !.idle = NewIdle,
                   !.schedClassActive =
                       [c \in ActiveClasses(simConf.procs) |-> s.schedClassActive[c]],
                   !.schedClassPrio = simConf.prio,
                   !.contextSwitches = 0,
                   !.liveProcessCount = Len(simConf.procs),
                   !.curr = IdlePid,
                   !.runState = IF @ = "unloaded" THEN "ready" ELSE @,
                   !.err = "simConf.classParam needs to be either an object or undefined"]

\* Simulator.break
Simulator_break(s) == [s EXCEPT !.runState = "stopped"]

\* the locals of one iteration of the main loop
ResetLocals(s) ==
    [s EXCEPT !.ret = NullPid, !.endEventSet = FALSE, !.nrPutPrev = 0, !.nrPicks = 0,
              !.pickCalls = 0, !.lastPick = NoPick, !.preempted = {}, !.wrongDelete = FALSE,
              !.sharedDelete = FALSE,
              !.answer = NoAnswer, !.inserted = {}, !.endNow = {}]

\* the head of the loop body of Simulator.run, for the event just taken out
\* (history: atInstant holds the events that were queued for the time of the
\* event when the clock reached it, late tells whether an event inserted
\* after that has been processed)
FetchFrom(s, evt) ==
    LET s1 == [s EXCEPT !.simulationQueue = Tail(@)]
        newInstant == evt.time # s.simulationTime \/ s.processed = {}
        queued == {s.simulationQueue[i].id : i \in {j \in 1..Len(s.simulationQueue) :
                                                      s.simulationQueue[j].time = evt.time}}
    IN  IF evt.time > s.simulationLen
        THEN Throw(s1, "current simulation time exceeded simulation length")
        ELSE IF evt.time < s.simulationTime
        THEN Throw(s1, "event time is lower than current simulation time")
        ELSE [s1 EXCEPT !.simulationTime = evt.time,
                        !.processed = @ \cup {evt.time},
                        !.atInstant = IF newInstant THEN queued ELSE @,
                        !.late = @ \/ (~newInstant /\ evt.id \notin s.atInstant)]

\* handleBlock for the BlockEvent of the idle process, which pickNext places
\* at the length of the simulation after the pick, and which is reached only
\* when no SimStopEvent is queued: the idle process blocks for 0
IdleBlock(s) ==
    LET now == s.simulationTime
        e == NewEvent(s, "Enqueue", now, IdlePid, "none", FALSE)
    IN  Then(insertEvent(s, e), LAMBDA s1 :
             [s1 EXCEPT !.idle.remainingRuntime = 0,
                        !.idle.runnable = FALSE,
                        !.idle.execTime = @ + (now - s.idle.picked),
                        !.idle.picked = now,
                        !.idle.nextEvent = e])

\* the EnqueueEvent of the idle process: IdleClass.enqueue does nothing, and
\* Simulator.checkPreempt finds the class of the current process before that
\* of the idle process, or calls IdleClass.checkPreempt, which does nothing
IdleWakeUp(s) == [s EXCEPT !.idle.runnable = TRUE]

\* the branches of the loop body of Simulator.run
HandleEvent(s, evt) ==
    IF Failed(s) THEN s
    ELSE IF evt.type = "SimStart" THEN Simulator_pickNext(s)
    ELSE IF evt.type = "Enqueue" /\ evt.proc = IdlePid THEN IdleWakeUp(s)
    ELSE IF evt.type \in {"Fork", "Enqueue"} THEN WakeUp(s, evt)
    ELSE IF evt.type = "Block" /\ evt.proc = IdlePid THEN Simulator_pickNext(IdleBlock(s))
    ELSE IF evt.type = "Block" THEN Simulator_pickNext(handleBlock(s, evt))
    ELSE IF evt.type = "Timer" THEN TimerTick(s)
    ELSE IF evt.type = "Exit" THEN ExitRun(s, evt)
    ELSE s

\* the end of Simulator.run after the SimStopEvent
FinalExit(s, evt) ==
    [Finalise([s EXCEPT !.simulationQueue = Tail(@), !.simulationTime = evt.time])
        EXCEPT !.runState = "finished", !.result = "finished"]

\* a variant of StepsAfter that counts a step for every event
StepsAfterEveryEvent(s, stepsDone) == stepsDone + 1

\* runMode 2: a step is counted when the next event is of another time
StepsAfter(s, stepsDone) ==
    IF s.simulationQueue[1].time # s.simulationTime THEN stepsDone + 1 ELSE stepsDone

\* the main loop of Simulator.run; runMode 0 runs to the end, 1 until the time
\* runAmount, 2 for runAmount steps
RECURSIVE RunLoop(_, _, _, _)
RunLoop(s, runMode, runAmount, stepsDone) ==
    IF Len(s.simulationQueue) = 0
    THEN Throw(s, "the simulation queue is empty or has an invalid value stored in it")
    ELSE IF s.simulationQueue[1].type = "SimStop"
    THEN FinalExit(s, s.simulationQueue[1])
    ELSE Then(HandleEvent(FetchFrom(ResetLocals(s), s.simulationQueue[1]),
                          s.simulationQueue[1]), LAMBDA s1 :
         IF Len(s1.simulationQueue) = 0
         THEN (IF runMode = 0 THEN RunLoop(s1, runMode, runAmount, stepsDone)
               ELSE Throw(s1, "the simulation queue is empty or invalid value stored in it"))
         ELSE IF runMode = 1
         THEN (IF s1.simulationQueue[1].time > runAmount
               THEN [s1 EXCEPT !.simulationTime = runAmount,
                               !.backwards = @ \/ runAmount < s1.simulationTime,
                               !.result = "partial"]
               ELSE RunLoop(s1, runMode, runAmount, stepsDone))
         ELSE IF runMode = 2
         THEN (IF StepsAfter(s1, stepsDone) = runAmount
               THEN [s1 EXCEPT !.result = "partial"]
               ELSE RunLoop(s1, runMode, runAmount, StepsAfter(s1, stepsDone)))
         ELSE RunLoop(s1, runMode, runAmount, stepsDone))

\* an Error thrown inside the main loop leaves simRunning and simInitDone set
Aborted(s) == IF Failed(s) THEN [s EXCEPT !.runState = "aborted"] ELSE s

NotStartedError == "simulation has not been properly started. Run Simulator.init() first."

NotLoadedError ==
    "atttempting to run simulation before the processes were successfully loaded."

\* Simulator.run(runFor): runFor > 0 runs for that time, runFor < 0 for -runFor steps
Simulator_run(s, runMode, runFor) ==
    IF ~simInitDone(s) THEN Throw(s, NotStartedError)
    ELSE IF ~loaded(s) THEN Throw(s, NotLoadedError)
    ELSE Aborted(RunLoop([s EXCEPT !.runState = "running"], runMode,
                         IF runMode = 1 THEN runFor + s.simulationTime ELSE 0 - runFor, 0))

\* Simulator.runTo
Simulator_runTo(s, stopTime) ==
    IF ~simInitDone(s) THEN Throw(s, NotStartedError)
    ELSE IF stopTime <= s.simulationTime THEN [s EXCEPT !.result = "null"]
    ELSE Simulator_run(s, 1, stopTime - s.simulationTime)

\* Simulator.step
Simulator_step(s, steps) ==
    IF ~simInitDone(s) THEN Throw(s, NotStartedError)
    ELSE Simulator_run(s, 2, 0 - (IF steps < 1 THEN 1 ELSE steps))

\* the engine at the call of a public function
ApiState ==
    [State(NoEvent) EXCEPT !.err = ""]
        @@ [runState |-> runState, processed |-> {}, backwards |-> FALSE, result |-> "none",
            atInstant |-> {}, late |-> FALSE]

\* the engine after the call
ApiCommit(r, call, arg) ==
    /\ simulationTime' = r.simulationTime
    /\ simulationQueue' = r.simulationQueue
    /\ nextEventId' = r.nextEventId
    /\ procList' = r.procList
    /\ idle' = r.idle
    /\ curr' = r.curr
    /\ schedClassActive' = r.schedClassActive
    /\ schedClassPrio' = r.schedClassPrio
    /\ calledPutPrev' = r.calledPutPrev
    /\ contextSwitches' = r.contextSwitches
    /\ liveProcessCount' = r.liveProcessCount
    /\ simulationLen' = r.simulationLen
    /\ timerTickLen' = r.timerTickLen
    /\ preemption' = r.preemption
    /\ err' = r.err
    /\ runState' = r.runState
    /\ UNCHANGED schedClassPrioRegistered
    /\ step' = [call |-> call, arg |-> arg, timeBefore |-> simulationTime,
                wasRunning |-> simRunning(ApiState), processed |-> r.processed,
                backwards |-> r.backwards, late |-> r.late,
                result |-> IF r.err # "" THEN "error" ELSE r.result,
                initFailed |-> IF call = "init" /\ ~simRunning(ApiState) THEN r.err # ""
                               ELSE step.initFailed]

ApiInit == \E simConf \in SimConfs : ApiCommit(Simulator_init(ApiState, simConf), "init", simConf)

\* a call of Simulator.init with a configuration that it rejects, of a policy
\* whose object holds a state
ApiInitRejected ==
    \E simConf \in RejectedConfs :
        /\ ActiveClasses(simConf.procs) \subseteq DOMAIN schedClassActive
        /\ ApiCommit(Simulator_initRejected(ApiState, simConf), "init", simConf)

ApiRun == ApiCommit(Simulator_run(ApiState, 0, 0), "run", 0)

ApiRunTo == \E t \in 1..ApiSimLen : ApiCommit(Simulator_runTo(ApiState, t), "runTo", t)

ApiStep == \E n \in 1..MaxSteps : ApiCommit(Simulator_step(ApiState, n), "step", n)

ApiBreak == ApiCommit(Simulator_break(ApiState), "break", 0)

\* the engine as constructed: nothing loaded, no simulation initialised, no
\* current process (the idle process is created by loadProc; NewIdle stands
\* for its absence)
Constructed ==
    /\ simulationTime = 0
    /\ simulationLen = 0
    /\ timerTickLen = 0
    /\ preemption = TRUE
    /\ simulationQueue = <<>>
    /\ nextEventId = 1
    /\ procList = <<>>
    /\ idle = NewIdle
    /\ curr = NullPid
    /\ schedClassActive = <<>>
    /\ schedClassPrio = <<>>
    /\ calledPutPrev = FALSE
    /\ contextSwitches = 0
    /\ liveProcessCount = 0
    /\ runState = "none"
    /\ err = ""
    /\ schedClassPrioRegistered = RegisteredClasses
    /\ step = [call |-> "none", arg |-> 0, timeBefore |-> 0, wasRunning |-> FALSE,
               processed |-> {}, backwards |-> FALSE, late |-> FALSE, result |-> "none",
               initFailed |-> FALSE]

ApiNext ==
    \/ ApiInit
    \/ ApiInitRejected
    \/ ApiRun
    \/ ApiRunTo
    \/ ApiStep
    \/ ApiBreak

ApiSpec == Constructed /\ [][ApiNext]_vars

\* C18: a call runTo(t) with now < t that does not throw processes events of
\* times up to t only, leaves no event of a time up to t, returns a partial
\* result with the clock at t unless the SimStopEvent is among them, and the
\* clock never moves backwards.
C18_RunTo ==
    step.call = "runTo" /\ step.timeBefore < step.arg /\ step.result # "error"
        => /\ \A t \in step.processed : t <= step.arg
           /\ \A i \in 1..Len(simulationQueue) :
                 runState # "finished" => simulationQueue[i].time > step.arg
           /\ step.result = "partial" => simulationTime = step.arg
           /\ step.arg < simulationLen => step.result = "partial"
           /\ ~step.backwards
           /\ simulationTime >= step.timeBefore

MaxOf(S) == CHOOSE x \in S : \A y \in S : y <= x

\* C19: when step(n) returns a partial result, the events it processed have
\* exactly n distinct times, the clock is at the last of them, and every
\* event left in the queue is later than the clock.
C19_Step ==
    step.call = "step" /\ step.result = "partial"
        => /\ Cardinality(step.processed) = step.arg
           /\ simulationTime = MaxOf(step.processed)
           /\ \A i \in 1..Len(simulationQueue) : simulationQueue[i].time > simulationTime

C19_Witness ==
    /\ step.call = "step" /\ step.result = "partial" /\ step.arg = 2
    /\ step.late
    /\ step.timeBefore > 0

\* the private variables of the engine as constructed
NewSimulator ==
    [simulationTime |-> 0, simulationQueue |-> <<>>, nextEventId |-> 1, procList |-> <<>>,
     idle |-> NewIdle, curr |-> NullPid, schedClassActive |-> <<>>, schedClassPrio |-> <<>>,
     contextSwitches |-> 0, liveProcessCount |-> 0, simulationLen |-> 0,
     timerTickLen |-> 0, preemption |-> TRUE, runState |-> "none", err |-> ""]

\* the same variables now; calledPutPrev is left out: init does not touch it,
\* and pickNext sets it before every use
Engine ==
    [simulationTime |-> simulationTime, simulationQueue |-> simulationQueue,
     nextEventId |-> nextEventId, procList |-> procList, idle |-> idle, curr |-> curr,
     schedClassActive |-> schedClassActive, schedClassPrio |-> schedClassPrio,
     contextSwitches |-> contextSwitches, liveProcessCount |-> liveProcessCount,
     simulationLen |-> simulationLen, timerTickLen |-> timerTickLen,
     preemption |-> preemption, runState |-> runState, err |-> err]

C21_RejectedInitBlocksRun ==
    step.call \in {"run", "step", "runTo"} /\ step.initFailed
        => /\ step.result = "error"
           /\ step.processed = {}
           /\ runState \notin {"running", "aborted"}

(***************************************************************************)
(* The order of the classes: Simulator.reorderRegisteredClasses and        *)
(* Simulator.reorderActiveClasses, called on an engine that holds the      *)
(* registered classes in some order and some of them as the active ones,   *)
(* in some order.  step records the call, with its orderArray when it was  *)
(* accepted, and the orders before it.  A slot of an                       *)
(* orderArray holds an index, or a number that is no index of an Array (a  *)
(* negative one stands for these: the assignment checkArray[-1] = true     *)
(* leaves the length of checkArray alone, as that of 0.5 or NaN does).     *)
(***************************************************************************)
MaxOrder == 3

MaxReorders == 1

OrderArrays == UNION {[1..n -> (0 - 1)..MaxOrder] : n \in 0..MaxOrder}

Undefined == "undefined"

\* the indices of checkArray that hold true, and its length, after the first loop
CheckArray(orderArray) == {orderArray[i] : i \in 1..Len(orderArray)} \cap Nat

CheckLength(orderArray) ==
    IF CheckArray(orderArray) = {} THEN 0
    ELSE 1 + CHOOSE m \in CheckArray(orderArray) : \A k \in CheckArray(orderArray) : k <= m

\* the second loop finds no slot of checkArray that is not true
AllIncluded(orderArray) ==
    \A i \in 0..(CheckLength(orderArray) - 1) : i \in CheckArray(orderArray)

\* orderArray.map(i => old[i])
Reordered(old, orderArray) ==
    [i \in 1..Len(orderArray) |->
        IF orderArray[i] \in 0..(Len(old) - 1) THEN old[orderArray[i] + 1] ELSE Undefined]

IncludeAllError == "orderArray needs to include all numbers from 0 to length-1"

Includes(seq, x) == \E i \in 1..Len(seq) : seq[i] = x

OrderState ==
    [schedClassPrioRegistered |-> schedClassPrioRegistered,
     schedClassPrio |-> schedClassPrio, runState |-> runState, err |-> ""]

\* Simulator.reorderRegisteredClasses
reorderRegisteredClasses(s, orderArray) ==
    IF simRunning(s) THEN Throw(s, "a simulation is running")
    ELSE IF Len(orderArray) # Len(s.schedClassPrioRegistered)
    THEN Throw(s, "orderArray length needs to match the numer of registered scheduling classes")
    ELSE IF ~AllIncluded(orderArray)
    THEN Throw(s, IncludeAllError)
    ELSE LET registered == Reordered(s.schedClassPrioRegistered, orderArray)
         IN  [s EXCEPT !.schedClassPrioRegistered = registered,
                       !.schedClassPrio =
                           IF Len(@) > 1
                           THEN SelectSeq(registered, LAMBDA c : Includes(s.schedClassPrio, c))
                           ELSE @]

\* Simulator.reorderActiveClasses
reorderActiveClasses(s, orderArray) ==
    IF ~simInitDone(s)
    THEN Throw(s, "simulation has not been initialised yet, no active classes to reorder")
    ELSE IF Len(s.schedClassPrio) < 2 THEN s
    ELSE IF simRunning(s) THEN Throw(s, "a simulation is running")
    ELSE IF Len(orderArray) # Len(s.schedClassPrio)
    THEN Throw(s, "orderArray length needs to match the numer of active scheduling classes")
    ELSE IF ~AllIncluded(orderArray)
    THEN Throw(s, IncludeAllError)
    ELSE [s EXCEPT !.schedClassPrio = Reordered(@, orderArray)]

IsPermutation(orderArray, n) ==
    Len(orderArray) = n /\ {orderArray[i] : i \in 1..Len(orderArray)} = 0..(n - 1)

OrderCommit(r, call, arg) ==
    /\ step.calls < MaxReorders
    /\ schedClassPrioRegistered' = r.schedClassPrioRegistered
    /\ schedClassPrio' = r.schedClassPrio
    /\ err' = r.err
    /\ step' = [call |-> call, arg |-> IF r.err = "" THEN arg ELSE <<>>,
                perm |-> IsPermutation(arg, IF call = "active" THEN Len(schedClassPrio)
                                            ELSE Len(schedClassPrioRegistered)),
                registered |-> schedClassPrioRegistered, active |-> schedClassPrio,
                calls |-> step.calls + 1]
    /\ UNCHANGED <<simulationTime, simulationQueue, nextEventId, procList, idle, curr,
                   schedClassActive, calledPutPrev, contextSwitches, liveProcessCount,
                   simulationLen, timerTickLen, preemption, runState>>

ReorderRegistered ==
    \E orderArray \in OrderArrays :
        OrderCommit(reorderRegisteredClasses(OrderState, orderArray), "registered", orderArray)

ReorderActive ==
    \E orderArray \in OrderArrays :
        OrderCommit(reorderActiveClasses(OrderState, orderArray), "active", orderArray)

\* the orders of the classes of a set
Orders(classes) ==
    {o \in [1..Cardinality(classes) -> classes] :
        \A i, j \in 1..Len(o) : i # j => o[i] # o[j]}

\* the engine before a simulation is initialised (no active class), after
\* Simulator.init of a configuration that uses some of the classes, while
\* its simulation runs, and after Simulator.break; each order is one that
\* calls of parseClassPrio and of the two functions lead to
OrderInit ==
    /\ simulationTime = 0
    /\ simulationLen = 0
    /\ timerTickLen = 0
    /\ preemption = TRUE
    /\ simulationQueue = <<>>
    /\ nextEventId = 1
    /\ procList = <<>>
    /\ idle = NewIdle
    /\ curr = NullPid
    /\ schedClassActive = <<>>
    /\ calledPutPrev = FALSE
    /\ contextSwitches = 0
    /\ liveProcessCount = 0
    /\ err = ""
    /\ schedClassPrioRegistered \in Orders(Policies)
    /\ \E active \in SUBSET Policies :
          /\ schedClassPrio \in Orders(active)
          /\ runState \in (IF active = {} THEN {"none"} ELSE {"ready", "running", "stopped"})
    /\ step = [call |-> "none", arg |-> <<>>, perm |-> FALSE,
               registered |-> schedClassPrioRegistered, active |-> schedClassPrio,
               calls |-> 0]

OrderNext ==
    \/ ReorderRegistered
    \/ ReorderActive

OrderSpec == OrderInit /\ [][OrderNext]_vars

SameClasses(a, b) ==
    /\ Len(a) = Len(b)
    /\ \A c \in {a[i] : i \in 1..Len(a)} \cup {b[i] : i \in 1..Len(b)} :
          Cardinality({i \in 1..Len(a) : a[i] = c}) = Cardinality({i \in 1..Len(b) : b[i] = c})

Accepted == step.call # "none" /\ err = "" /\ ~(step.call = "active" /\ Len(step.active) < 2)

\* C22: a call of reorderRegisteredClasses or reorderActiveClasses that does
\* not throw was given a permutation of 0..n-1 and has set new[i] =
\* old[orderArray[i]]; no permutation is refused by the check of the indices;
\* a call that throws leaves both orders as they were; each order holds the
\* classes it held before the call, each of them once.
C22_ReorderKeepsClasses ==
    /\ Accepted
          => /\ step.perm
             /\ step.call = "registered"
                   => schedClassPrioRegistered = Reordered(step.registered, step.arg)
             /\ step.call = "active" => schedClassPrio = Reordered(step.active, step.arg)
    /\ step.perm => err # IncludeAllError
    /\ err # "" => schedClassPrioRegistered = step.registered /\ schedClassPrio = step.active
    /\ SameClasses(schedClassPrioRegistered, step.registered)
    /\ SameClasses(schedClassPrio, step.active)

(***************************************************************************)
(* The public switch Simulator.preemption set to false before the run      *)
(***************************************************************************)
NoPreemptLists ==
    {pl \in ProcLists :
        /\ Len(pl) = 2
        /\ pl[1].policy \in Policies
        /\ \/ Len(pl[1].behavior) = 1
           \/ Len(pl[1].behavior) = 2 /\ pl[1].behavior[2].execCnt = 2}

NoPreemptSpec == InitOf(NoPreemptLists, FALSE) /\ [][Next]_vars

\* the event made a process runnable whose class is that of the current
\* process, which was not at the end of its burst
SameClassWakeUp ==
    /\ step.evt.type \in {"Fork", "Enqueue"}
    /\ step.currBefore # IdlePid
    /\ err = ""
    /\ procList[step.evt.proc].policy = procList[step.currBefore].policy
    /\ step.currBefore \notin step.endNow

\* C23: while Simulator.preemption is false a Timer event changes no process,
\* no class and not the current process and leaves no Timer event queued,
\* and an event that makes a process of the class of the current process
\* runnable does not deschedule the current process.
C23_PreemptionOff ==
    /\ [][~preemption /\ step'.evt.type = "Timer"
             => /\ procList' = procList
                /\ schedClassActive' = schedClassActive
                /\ curr' = curr
                /\ \A i \in 1..Len(simulationQueue') : simulationQueue'[i].type # "Timer"]_vars
    /\ [](~preemption /\ SameClassWakeUp => step.preempted = {} /\ curr = step.currBefore)

(***************************************************************************)
(* Round-Robin                                                             *)
(***************************************************************************)
RoundName == "RoundClass"

\* C24: under RoundClass with time slice s no entry of the run log of a
\* Round-Robin process exceeds s.
C24_RoundSliceBound ==
    \A p \in Pids :
        procList[p].policy = RoundName
            => \A i \in 1..Len(procList[p].runLog) :
                   procList[p].runLog[i] <= schedClassActive[RoundName].timeSlice

(***************************************************************************)
(* C25, C26.  Configurations of LinuxO1Class: the process under            *)
(* observation has a behavior update that changes its priority, its        *)
(* competitor is of the same class or of FCFSClass.                        *)
(***************************************************************************)
PriorityEntry(cond, priority) ==
    [CondEntry(FALSE, FALSE, cond, 1, 0) EXCEPT !.hasPriority = TRUE, !.priority = priority]

O1Tails == {<<>>} \cup {<<CondEntry(TRUE, nice, "execCnt", 2, 0)>> : nice \in BOOLEAN}

O1SubjectDefs ==
    {ProcDef(O1Name, spawn, run, 1, <<PriorityEntry(cond, priority)>> \o tail) :
        spawn \in 0..1, run \in RunLens, cond \in Conds, priority \in O1Priorities \ {0},
        tail \in O1Tails}

O1OtherDefs ==
    {ProcDef(policy, spawn, run, 2, <<>>) :
        policy \in {O1Name, "FCFSClass"}, spawn \in 0..MaxSpawn, run \in RunLens}

O1ProcLists == {<<d, e>> : d \in O1SubjectDefs, e \in O1OtherDefs}

O1Spec == InitOf(O1ProcLists, TRUE) /\ [][Next]_vars

\* C25: at every event-loop boundary the current task, when it is not the
\* idle task, is alive and runnable and is not counted as waiting.
C25_CurrIsRunnable ==
    AtBoundary /\ curr # IdlePid
        => procList[curr].alive /\ procList[curr].runnable /\ ~procList[curr].waiting

\* the number of times the process is stored in the lists of the two
\* runqueue objects of LinuxO1Class
TimesInLists(p) ==
    LET cl == schedClassActive[procList[p].policy]
        places == {<<o, listNo, i>> \in {"x", "y"} \X O1Lists \X (1..Cardinality(Pids)) :
                      /\ i <= Len(cl.rqs[o].rq[listNo])
                      /\ cl.rqs[o].rq[listNo][i] = p}
    IN  Cardinality(places)

\* C26: at every event-loop boundary onRq is true if and only if the process
\* is stored in the runqueue structure of its class, and it is stored there
\* at most once.
C26_OnRqExact ==
    AtBoundary =>
        \A p \in Pids :
            /\ procList[p].onRq <=> TimesStored(p) + TimesInLists(p) >= 1
            /\ TimesStored(p) + TimesInLists(p) <= 1

(***************************************************************************)
(* C27.  Configurations of three processes: two of FCFSClass, the third of *)
(* FCFSClass or of a class of another priority.                            *)
(***************************************************************************)
FCFSName == "FCFSClass"

QueueTails == {<<>>} \cup {<<CondEntry(TRUE, nice, "execCnt", 2, 0)>> : nice \in BOOLEAN}

QueueLists(c) ==
    {<<ProcDef(c, 0, run, 1, tail), ProcDef(c, spawn, 2, block, <<>>),
       ProcDef(policy, other, 3, 2, <<>>)>> :
        run \in RunLens, tail \in QueueTails, spawn \in 0..1, block \in 1..2,
        policy \in {c, FairName}, other \in 0..MaxSpawn}

FCFSSpec == InitOf(QueueLists(FCFSName), TRUE) /\ [][Next]_vars

QueueOf(c) == schedClassActive[c].runqueue

Position(q, p) == CHOOSE i \in 1..Len(q) : q[i] = p

Queued(q) == {q[i] : i \in 1..Len(q)}

\* the processes that stay in the queue keep their order, and those that come
\* into it come after them
KeepsOrder(old, new) ==
    \A i, j \in 1..Len(new) :
        i < j /\ new[j] \in Queued(old)
            => new[i] \in Queued(old) /\ Position(old, new[i]) < Position(old, new[j])

StillRunnable(p) == procList'[p].alive /\ procList'[p].runnable

\* C27: the current process of FCFSClass is the head of its runqueue; the
\* queue takes a process in when the process becomes runnable, behind those
\* that are in it, and keeps their order; the head
\* stays the head, and so a current process is replaced by no other process
\* of FCFSClass, until it blocks or exits, also while a process of a class
\* of higher priority runs.
C27_FCFSOrder ==
    /\ [](AtBoundary /\ curr # IdlePid /\ procList[curr].policy = FCFSName
              => Len(QueueOf(FCFSName)) > 0 /\ QueueOf(FCFSName)[1] = curr)
    /\ [][AtBoundary' => \A p \in Queued(QueueOf(FCFSName)') \ Queued(QueueOf(FCFSName)) :
                              step'.evt.type \in {"Fork", "Enqueue"} /\ step'.evt.proc = p]_vars
    /\ [][AtBoundary' => KeepsOrder(QueueOf(FCFSName), QueueOf(FCFSName)')]_vars
    /\ [][AtBoundary' /\ Len(QueueOf(FCFSName)) > 0 /\ StillRunnable(QueueOf(FCFSName)[1])
              => QueueOf(FCFSName)'[1] = QueueOf(FCFSName)[1]]_vars
    /\ [][AtBoundary' /\ curr # IdlePid /\ curr' # IdlePid /\ curr' # curr
              /\ procList[curr].policy = FCFSName /\ procList[curr'].policy = FCFSName
              => ~StillRunnable(curr)]_vars

\* a process of FCFSClass resumes after a process of a higher class has run,
\* in the middle of a burst and ahead of another process of FCFSClass
C27_Witness ==
    /\ AtBoundary /\ curr # IdlePid /\ procList[curr].policy = FCFSName
    /\ step.currBefore # IdlePid /\ procList[step.currBefore].policy # FCFSName
    /\ Len(QueueOf(FCFSName)) > 1 /\ QueueOf(FCFSName)[1] = curr
    /\ procList[curr].execTime > 0
    /\ procList[curr].remainingRuntime < procList[curr].currBehavior.run

(***************************************************************************)
(* C28.  Configurations of three processes: two of RoundClass, the third   *)
(* of RoundClass or of a class of another priority.                        *)
(***************************************************************************)
RoundSpec == InitOf(QueueLists(RoundName), TRUE) /\ [][Next]_vars

\* the current process of RoundClass is no longer current and is runnable
RoundDescheduled ==
    /\ AtBoundary' /\ curr # IdlePid /\ procList[curr].policy = RoundName
    /\ curr' # curr /\ StillRunnable(curr)

\* C28: a process of RoundClass that is descheduled while it is runnable is
\* moved to the tail of the runqueue, the other processes keeping their
\* order, and has its time slice reset to that of the class; the current
\* process of RoundClass is the head of the runqueue.
C28_RoundRequeue ==
    /\ [][RoundDescheduled
              => /\ QueueOf(RoundName)' = Append(RemoveFirst(QueueOf(RoundName), curr), curr)
                 /\ procList'[curr].timeSlice = schedClassActive[RoundName].timeSlice]_vars
    /\ [](AtBoundary /\ curr # IdlePid /\ procList[curr].policy = RoundName
              => Len(QueueOf(RoundName)) > 0 /\ QueueOf(RoundName)[1] = curr)

\* at a timer tick the time slice of the current process has run out and the
\* next process of RoundClass runs, two others being queued behind it
C28_Witness ==
    /\ AtBoundary /\ step.evt.type = "Timer"
    /\ curr # IdlePid /\ procList[curr].policy = RoundName
    /\ step.currBefore \notin {IdlePid, curr}
    /\ procList[step.currBefore].policy = RoundName
    /\ procList[step.currBefore].runnable
    /\ Len(QueueOf(RoundName)) = 3 /\ QueueOf(RoundName)[3] = step.currBefore

(***************************************************************************)
(* C29, C30.  Configurations of three processes: two of SJFClass, the      *)
(* third of SJFClass or of a class of another priority, with and without   *)
(* the class parameter earlyPreemption.                                    *)
(***************************************************************************)
SJFLists ==
    {<<ProcDef(SJFName, 0, run, 1, tail), ProcDef(SJFName, spawn, len, block, <<>>),
       ProcDef(policy, other, burst, 2, <<>>)>> :
        run \in RunLens, tail \in QueueTails, spawn \in 0..1, len \in RunLens, block \in 1..2,
        policy \in {SJFName, FairName}, other \in 0..MaxSpawn, burst \in RunLens}

SJFSpec == InitOf(SJFLists, TRUE) /\ [][Next]_vars

\* C29: a process that SJFClass.pickNext returns has a remainingRuntime that
\* is at most that of every process left in the runqueue, and was enqueued
\* before every process left in it that has the same remainingRuntime.
C29_SJFPicksMinimum ==
    \A pick \in step.sjfPicks : \A other \in pick.left :
        /\ pick.picked.remainingRuntime <= other.remainingRuntime
        /\ pick.picked.remainingRuntime = other.remainingRuntime
               => pick.picked.enqueueNo < other.enqueueNo

\* pickNext has returned a process and left in the runqueue the preempted
\* previous process and a process of the remainingRuntime of the returned one
C29_Witness ==
    /\ AtBoundary /\ step.currBefore # IdlePid /\ curr # step.currBefore
    /\ procList[step.currBefore].policy = SJFName /\ step.currBefore \in step.preempted
    /\ \E pick \in step.sjfPicks :
           /\ Stamp(State(step.evt), curr) = pick.picked
           /\ Stamp(State(step.evt), step.currBefore) \in pick.left
           /\ \E other \in pick.left :
                  other.remainingRuntime = pick.picked.remainingRuntime

\* what is left at the time now of the burst of the current process
RemainingNow(p, now) == procList[p].remainingRuntime - (now - procList[p].picked)

\* the event of the step makes a process of SJFClass runnable while another
\* process of SJFClass, with early preemption, is in the middle of a burst
SJFWakeUp ==
    /\ AtBoundary' /\ step'.evt.type \in {"Fork", "Enqueue"}
    /\ procList[step'.evt.proc].policy = SJFName
    /\ curr # IdlePid /\ procList[curr].policy = SJFName
    /\ schedClassActive[SJFName].earlyPreemption
    /\ RemainingNow(curr, simulationTime') > 0

\* C30: with earlyPreemption, when a process of SJFClass becomes runnable
\* while a process of SJFClass runs, Simulator.pickNext is called if and only
\* if the remainingRuntime of the new process is less than what is left of
\* the burst of the running process at that time.
C30_SRTFPreemption ==
    [][SJFWakeUp
           => (step'.pickCalls > 0
                   <=> procList[step'.evt.proc].currBehavior.run
                           < RemainingNow(curr, simulationTime'))]_vars

(***************************************************************************)
(* C31, C32.  Configurations of two processes of LinuxO1Class of the two   *)
(* lowest priorities, whose time slice (5 for priority 19) runs out within *)
(* the simulation; the priority of the first may change.                   *)
(***************************************************************************)
WithPriority(def, priority) == [def EXCEPT !.behavior[1].priority = priority]

O1SliceTails ==
    {<<>>, <<CondEntry(TRUE, TRUE, "execCnt", 2, 0)>>}
        \cup {<<PriorityEntry("execCnt", priority)>> : priority \in O1LowPriorities}

O1SliceLists ==
    {<<WithPriority(ProcDef(O1Name, 0, run, 1, tail), 19),
       WithPriority(ProcDef(O1Name, spawn, len, block, <<>>), priority)>> :
        run \in RunLens, tail \in O1SliceTails, spawn \in 0..MaxSpawn, len \in RunLens,
        block \in 1..2, priority \in O1LowPriorities}

O1SliceSpec == InitOf(O1SliceLists, TRUE) /\ [][Next]_vars

\* the lists of a runqueue object that hold a process
ListsInUse(rqObj) == {listNo \in O1Lists : Len(rqObj.rq[listNo]) > 0}

\* C31: LinuxO1Class.pickNext returns the first process of the list of the
\* lowest number that holds a process in the active runqueue, and swaps the
\* active and the expired runqueue only when the active one holds no
\* process.
C31_O1Selection ==
    \A pick \in step.o1Picks :
        /\ pick.picked # NullPid
               => /\ ListsInUse(pick.rqs[pick.after]) # {}
                  /\ \E listNo \in ListsInUse(pick.rqs[pick.after]) :
                         /\ \A other \in ListsInUse(pick.rqs[pick.after]) : listNo <= other
                         /\ pick.picked = pick.rqs[pick.after].rq[listNo][1]
        /\ pick.after # pick.before => ListsInUse(pick.rqs[pick.before]) = {}
        /\ ListsInUse(pick.rqs[pick.before]) # {} => pick.picked # NullPid

\* the number of times the process is stored in the lists of one of the two
\* runqueue objects
TimesInObject(o, p) ==
    LET cl == schedClassActive[O1Name]
    IN  Cardinality({<<listNo, i>> \in O1Lists \X (1..Cardinality(Pids)) :
                        i <= Len(cl.rqs[o].rq[listNo]) /\ cl.rqs[o].rq[listNo][i] = p})

OtherObject(o) == IF o = "x" THEN "y" ELSE "x"

\* C32: a process of LinuxO1Class whose time slice has run out is taken out
\* of the active runqueue and put into the expired one with the full time
\* slice of its priority, and is current again only after a swap of the two;
\* no stored process is left with a time slice of 0, and the current process
\* is stored in the active runqueue.
C32_O1SliceExhaustion ==
    AtBoundary =>
        /\ \A e \in step.o1Expiries :
               /\ TimesInObject(e.into, e.proc) = 1
               /\ TimesInObject(OtherObject(e.into), e.proc) = 0
               /\ procList[e.proc].timeSlice
                      = getTimesliceLen(procList[e.proc].currBehavior.priority)
               /\ curr = e.proc
                      => \E pick \in step.o1Picks :
                             pick.before # pick.after /\ pick.after = e.into
        /\ \A p \in Pids :
               procList[p].policy = O1Name /\ procList[p].onRq => procList[p].timeSlice > 0
        /\ curr # IdlePid /\ procList[curr].policy = O1Name /\ procList[curr].onRq
               => TimesInObject(schedClassActive[O1Name].active, curr) >= 1

\* C33: when no class returns a process and the idle process becomes the
\* current one, putPrev has been called for the previous process, so that
\* a previous process of LinuxO1Class has its time slice charged up to the
\* time of the pick.
C33_IdleFallbackPutsPrev ==
    AtBoundary /\ step.nrPicks > 0 /\ step.lastPick.proc = IdlePid
        /\ step.lastPick.prev # IdlePid
        => /\ step.lastPick.nrPutPrev > 0
           /\ procList[step.lastPick.prev].policy = O1Name
                  => procList[step.lastPick.prev].updated = step.lastPick.time

(***************************************************************************)
(* C34: the timer ticks.                                                   *)
(***************************************************************************)
PendingTimers == {i \in 1..Len(simulationQueue) : simulationQueue[i].type = "Timer"}

\* C34: with preemption, at every event-loop boundary exactly one Timer event
\* is queued, at the next multiple of timerTickLen that has not had its
\* tick, so that no multiple before simulationLen is passed without one; a
\* Timer event is at a multiple of timerTickLen and calls taskTick once, of
\* the class of the process that is current when it is handled.
C34_TimerTicks ==
    AtBoundary /\ preemption =>
        /\ Cardinality(PendingTimers) = 1
        /\ \A i \in PendingTimers :
               /\ simulationQueue[i].time % timerTickLen = 0
               /\ simulationQueue[i].time >= simulationTime
               /\ simulationQueue[i].time <= simulationTime + timerTickLen
               /\ simulationQueue[i].time = simulationTime + timerTickLen
                      => simulationTime % timerTickLen = 0
               /\ simulationQueue[i].time = simulationTime /\ simulationTime > 0
                      => ~(step.evt.type = "Timer" /\ step.evt.time = simulationTime)
        /\ step.evt.type = "Timer"
               => /\ step.evt.time % timerTickLen = 0 /\ step.evt.time < simulationLen
                  /\ step.taskTicks = <<CurrPolicy(step.currBefore)>>
        /\ step.evt.type # "Timer" => step.taskTicks = <<>>

\* the second timer tick has called the taskTick of RoundClass, which has
\* made another process the current one
C34_Witness ==
    /\ AtBoundary /\ preemption /\ step.evt.type = "Timer"
    /\ step.evt.time = 2 * timerTickLen
    /\ step.taskTicks = <<RoundName>> /\ curr # step.currBefore
    /\ Cardinality(PendingTimers) = 1

(***************************************************************************)
(* The init of the classes that give each task a time slice from its      *)
(* priority, applied by Simulator.init to the process list that loadProc  *)
(* has built                                                               *)
(***************************************************************************)
LinuxOriginalName == "LinuxOriginalClass"

LinuxOnName == "LinuxOnClass"

LinuxOnTimeScale == 1

InitPolicies == {"FCFSClass", LinuxOriginalName, LinuxOnName, O1Name}

\* priorities below, inside and above the ranges of the classes
InitPriorities == {0 - 121, 0 - 21, 0, 5, 20}

\* a process as loadProc leaves it: no class has given it a time slice
\* (timeSlice -1 stands for the field that is not defined yet)
LoadedProcess(policy, priority) ==
    [NewProcess(WithPriority(ProcDef(policy, 0, 2, 1, <<>>), priority))
        EXCEPT !.timeSlice = 0 - 1]

ClassInitState == [procList |-> procList, schedClassPrio |-> schedClassPrio, err |-> ""]

\* Simulator.modProc with an array of names that are all "timeSlice"
modProc(s, propVal, className) ==
    IF ~Includes(s.schedClassPrio, className)
    THEN Throw(s, "The class referenced in className is not currently active")
    ELSE IF Len(propVal) # Len(s.procList)
    THEN Throw(s, "propName is an array, but its size doesn't match the number of processes")
    ELSE [s EXCEPT !.procList =
              [i \in 1..Len(@) |->
                  IF @[i].policy = className THEN [@[i] EXCEPT !.timeSlice = propVal[i]]
                  ELSE @[i]]]

\* LinuxOriginalClass.init; currBehavior is the object behavior[0]
LinuxOriginal_init(s) ==
    LET raised == [i \in 1..Len(s.procList) |->
                      IF s.procList[i].currBehavior.priority <= 0
                      THEN [s.procList[i] EXCEPT !.currBehavior.priority = 1,
                                                 !.behavior[1].priority = 1]
                      ELSE s.procList[i]]
    IN  modProc([s EXCEPT !.procList = raised],
                [i \in 1..Len(raised) |-> raised[i].currBehavior.priority],
                LinuxOriginalName)

\* LinuxOnClass.init
LinuxOn_init(s) ==
    IF \E i \in 1..Len(s.procList) :
          \/ s.procList[i].currBehavior.priority < 0 - 20
          \/ s.procList[i].currBehavior.priority > 19
    THEN Throw(s, "allowed values are from -20 (highest priority) to 19 (lowest priority)")
    ELSE modProc(s, [i \in 1..Len(s.procList) |->
                        (20 - s.procList[i].currBehavior.priority) * 2 * LinuxOnTimeScale],
                 LinuxOnName)

\* LinuxO1Class.init
LinuxO1_init(s) ==
    IF \E i \in 1..Len(s.procList) :
          \/ s.procList[i].currBehavior.priority < 0 - 120
          \/ s.procList[i].currBehavior.priority > 19
    THEN Throw(s, "allowed values are from -120 (highest priority) to 19 (lowest priority)")
    ELSE Then(modProc(s, [i \in 1..Len(s.procList) |->
                             getTimesliceLen(s.procList[i].currBehavior.priority)],
                      O1Name),
              LAMBDA s1 : [s1 EXCEPT !.procList =
                              [i \in 1..Len(@) |->
                                  IF @[i].policy = O1Name THEN [@[i] EXCEPT !.o1rq = "none"]
                                  ELSE @[i]]])

\* FCFSClass.init: the runqueue of the class only
FCFS_init(s) == s

\* the loop of Simulator.init over schedClassPrio: one init per step
\* (history: the class that was initialised and the process list before it)
ClassInitCommit(r, c) ==
    /\ procList' = r.procList
    /\ err' = r.err
    /\ step' = [class |-> c, before |-> procList, inits |-> step.inits + 1]
    /\ UNCHANGED <<simulationTime, simulationQueue, nextEventId, idle, curr,
                   schedClassActive, schedClassPrio, calledPutPrev, contextSwitches,
                   liveProcessCount, simulationLen, timerTickLen, preemption, runState,
                   schedClassPrioRegistered>>

NextToInit(c) ==
    /\ runState = "init" /\ err = ""
    /\ step.inits < Len(schedClassPrio)
    /\ schedClassPrio[step.inits + 1] = c

InitFCFS == NextToInit("FCFSClass") /\ ClassInitCommit(FCFS_init(ClassInitState), "FCFSClass")

InitLinuxOriginal ==
    NextToInit(LinuxOriginalName)
        /\ ClassInitCommit(LinuxOriginal_init(ClassInitState), LinuxOriginalName)

InitLinuxOn == NextToInit(LinuxOnName) /\ ClassInitCommit(LinuxOn_init(ClassInitState), LinuxOnName)

InitLinuxO1 == NextToInit(O1Name) /\ ClassInitCommit(LinuxO1_init(ClassInitState), O1Name)

\* two processes of any two policies and priorities; the active classes are
\* the policies in use, in any order that reorderRegisteredClasses can set
ClassInitInit ==
    /\ simulationTime = 0
    /\ simulationLen = MaxSimLen
    /\ timerTickLen = TickLen
    /\ preemption = TRUE
    /\ simulationQueue = <<>>
    /\ nextEventId = 1
    /\ \E policy1, policy2 \in InitPolicies, priority1, priority2 \in InitPriorities :
          /\ procList = <<LoadedProcess(policy1, priority1), LoadedProcess(policy2, priority2)>>
          /\ schedClassPrio \in Orders({policy1, policy2})
    /\ idle = NewIdle
    /\ curr = NullPid
    /\ schedClassActive = <<>>
    /\ calledPutPrev = FALSE
    /\ contextSwitches = 0
    /\ liveProcessCount = 0
    /\ runState = "init"
    /\ err = ""
    /\ schedClassPrioRegistered = RegisteredClasses
    /\ step = [class |-> "none", before |-> procList, inits |-> 0]

ClassInitNext ==
    \/ InitFCFS
    \/ InitLinuxOriginal
    \/ InitLinuxOn
    \/ InitLinuxO1

ClassInitSpec == ClassInitInit /\ [][ClassInitNext]_vars

\* the priorities that the init of a class accepts
AllowedPriority(c, priority) ==
    CASE c = LinuxOnName -> priority >= 0 - 20 /\ priority <= 19
      [] c = O1Name -> priority >= 0 - 120 /\ priority <= 19
      [] OTHER -> TRUE

\* C35: the init of a class leaves every process of another policy as it
\* was, every field of it (its priority included), and it fails only when a
\* process of its own policy has a priority that the class does not allow.
C35_InitOwnsItsTasks ==
    step.inits > 0
        => /\ \A i \in 1..Len(procList) :
                 step.before[i].policy # step.class => procList[i] = step.before[i]
           /\ err # ""
                 => \E i \in 1..Len(procList) :
                       /\ step.before[i].policy = step.class
                       /\ ~AllowedPriority(step.class, step.before[i].currBehavior.priority)

(***************************************************************************)
(* The latency sum of a class                                              *)
(***************************************************************************)
\* the time for which the first n processes have been waiting on the
\* runqueue of class c when the latency of the class was last updated
RECURSIVE WaitedFor(_, _)
WaitedFor(c, n) ==
    IF n = 0 THEN 0
    ELSE WaitedFor(c, n - 1)
            + (IF procList[n].policy = c /\ procList[n].waiting
               THEN schedClassActive[c].latencyUpdate - procList[n].enqueued
               ELSE 0)

\* C36: between two events the latencySum of every active class is the sum,
\* over the processes of the class that are waiting, of latencyUpdate minus
\* the time at which the process was enqueued; it is never negative.
C36_LatencySumFlushed ==
    AtBoundary
        => \A c \in DOMAIN schedClassActive :
              /\ schedClassActive[c].latencySum = WaitedFor(c, Len(procList))
              /\ schedClassActive[c].latencySum >= 0

\* a class whose latency sum is positive: a process has waited on its
\* runqueue across an update
C36_Witness ==
    /\ AtBoundary
    /\ step.evt.type \in {"Fork", "Enqueue", "Block", "Exit", "Timer"}
    /\ \E c \in DOMAIN schedClassActive :
          /\ schedClassActive[c].latencySum > 0
          /\ schedClassActive[c].nrWaiting > 0

(***************************************************************************)
(* Events of a process that has exited                                     *)
(***************************************************************************)
\* the events in the queue that are for process p
EventsFor(p) ==
    {i \in 1..Len(simulationQueue) :
        simulationQueue[i].proc = p /\ simulationQueue[i].type \in {"Enqueue", "Block", "Exit"}}

\* C37: once a process has exited the queue holds no Enqueue, Block or Exit
\* event for it, also when it went to sleep inside handlePreempt and exits
\* by its strict end event while it sleeps; the run never stops with
\* "attempting to enqueue a dead process".
C37_NoEventOutlivesProcess ==
    /\ \A p \in Pids : procList[p].exited >= 0 => EventsFor(p) = {}
    /\ err # "attempting to enqueue a dead process"

(***************************************************************************)
(* Deleting an event by its handle                                         *)
(***************************************************************************)
DeleteErrors ==
    {"the event was not found at the time it should be at",
     "cannot get an event that has already passed",
     "pass a valid event as an argument"}

\* C38: every deleteEvent or getEvent call of a step is made with an event
\* that is in the queue and takes out that very event: no other event of the
\* same time is taken out in its place, and no call ends with "the event was
\* not found at the time it should be at" (or with one of the other two
\* errors of getEvent).
C38_DeleteByHandleExact ==
    /\ ~step.wrongDelete
    /\ err \notin DeleteErrors

\* a process preempted before the end of its burst, whose Block or Exit
\* event was taken out from among other events of the same time
C38_Witness ==
    /\ err = ""
    /\ step.preempted # {}
    /\ step.sharedDelete
    /\ ~step.wrongDelete

(***************************************************************************)
(* The load of LinuxFairClass                                              *)
(***************************************************************************)
\* the weight of the first n processes that are fair and runnable: stored
\* in the tree of the class or running
RECURSIVE RunnableWeight(_)
RunnableWeight(n) ==
    IF n = 0 THEN 0
    ELSE RunnableWeight(n - 1)
            + (IF procList[n].policy = FairName /\ (TimesStored(n) > 0 \/ curr = n)
               THEN getLoad(procList[n].currBehavior.priority)
               ELSE 0)

\* C39: between two events the load of LinuxFairClass is the sum of the
\* weights of the fair processes that are stored in its tree or running; the
\* weight of a process that blocks or exits while it runs is taken off.
C39_FairLoadSum ==
    FairActive /\ AtBoundary
        => schedClassActive[FairName].load = RunnableWeight(Len(procList))

(***************************************************************************)
(* The latency logs of the classes                                         *)
(***************************************************************************)
\* every active class has logged as many samples as every other
LogsAligned ==
    \A c, d \in DOMAIN schedClassActive :
        schedClassActive[c].latencyLogLen = schedClassActive[d].latencyLogLen

\* a step adds to the log of every active class one sample for each call of
\* Simulator.pickNext that it made
LogsGrowWithPicks ==
    runState' # "aborted"
        => \A c \in DOMAIN schedClassActive' :
              schedClassActive'[c].latencyLogLen
                  = schedClassActive[c].latencyLogLen + step'.pickCalls

\* C40: between two events the latency logs of all active classes have the
\* same length, which is the number of Simulator.pickNext calls made so far
\* (the logs are empty at the start and every step adds one sample per call
\* to every class), so the check of the lengths at the end never fails.
C40_LatencyLogsAligned ==
    /\ [](AtBoundary => LogsAligned)
    /\ [][LogsGrowWithPicks]_vars

\* two active classes after a step that called Simulator.pickNext, the class
\* of higher priority having picked and the lower one logged its third sample
\* through updateLatency
C40_Witness ==
    /\ AtBoundary /\ LogsAligned
    /\ Len(schedClassPrio) >= 2
    /\ step.pickCalls >= 1
    /\ curr # IdlePid /\ PolicyOf(State(NoEvent), curr) = schedClassPrio[1]
    /\ schedClassActive[schedClassPrio[2]].latencyLogLen >= 3

=============================================================================
